---- MODULE Spec2Model ----
(***************************************************************************)
(* Workflow memory core of pipeline-backend (pkg/memory, pkg/data).        *)
(*                                                                         *)
(* Go values are pointers: every *data.Map lives in `heap` and is named by *)
(* its address; scalars and arrays are immutable after construction and    *)
(* are kept inline.  A map key and a path are sequences of symbols: the    *)
(* symbols ".", "[", "]" and the digits are the runes the path code looks  *)
(* at, any other symbol stands for a run of ordinary runes.                *)
(***************************************************************************)
EXTENDS Integers, Sequences, FiniteSets, TLC

VARIABLES
    heap,       \* the *data.Map objects: address -> Fields
    wfms,       \* the workflowMemory objects: handle -> [ID, Data, Recipe, streaming]
    mu,         \* wfm.mu of every handle: 0 (free) or the thread holding it
    registry,   \* ms.workflows: workflow ID -> handle (0: no entry)
    redis,      \* the durable KV: workflow ID -> blob under pipeline_trigger:{id}
    bus,        \* the messages published, oldest first
    pc,         \* where each thread is in the call it runs
    cur,        \* the call each thread runs, with its locals
    ret,        \* what the last call of each thread returned
    mlog,       \* history: the mutations applied to memory, oldest first
    ops         \* the number of calls started

vars == <<heap, wfms, mu, registry, redis, bus, pc, cur, ret, mlog, ops>>

(***************************************************************************)
(* Bounds of the model.                                                    *)
(***************************************************************************)
NThreads == 2
MaxOps == 3
MaxSeqOps == 3

Threads == 1..NThreads

(***************************************************************************)
(* pkg/memory constants.                                                   *)
(***************************************************************************)
K(s) == <<s>>

PipelineVariable == K("variable")
PipelineSecret == K("secret")
PipelineOutput == K("output")
PipelineOutputTemplate == K("_output")

ComponentStatusStarted == K("started")
ComponentStatusSkipped == K("skipped")
ComponentStatusCompleted == K("completed")

ComponentDataInput == K("input")
ComponentDataOutput == K("output")
ComponentDataElement == K("element")
ComponentDataSetup == K("setup")

StatusKey == K("status")

PipelineClosed == "pipeline_closed"
PipelineOutputUpdated == "pipeline_output_updated"
ComponentStatusUpdated == "component_status_updated"
ComponentInputUpdated == "component_input_updated"
ComponentOutputUpdated == "component_output_updated"

(***************************************************************************)
(* data.Value.  Nil is Go's nil interface; Ref(a) is the *data.Map at      *)
(* address a; MapV(f) is a map written out in full (what a caller builds,  *)
(* what the codec flattens a pointer graph into).                          *)
(***************************************************************************)
Nil == [k |-> "nil"]
Null == [k |-> "null"]
Bool(b) == [k |-> "bool", b |-> b]
Num(n) == [k |-> "num", n |-> n]
Str(s) == [k |-> "str", s |-> s]
Arr(vs) == [k |-> "arr", vs |-> vs]
Ref(a) == [k |-> "ref", a |-> a]
MapV(f) == [k |-> "map", f |-> f]

EmptyFields == <<>>

\* m.Fields[key] = v
PutField(fields, key, v) == (key :> v) @@ fields

\* v := m.Fields[key]: a missing key reads as the nil interface
GetField(fields, key) == IF key \in DOMAIN fields THEN fields[key] ELSE Nil

\* the object at address a after Fields[key] = v
HeapPut(h, a, key, v) == [h EXCEPT ![a] = PutField(@, key, v)]

\* the value graph below v, pointers followed
RECURSIVE Tree(_, _)
Tree(h, v) ==
    CASE v.k = "ref" -> MapV([key \in DOMAIN h[v.a] |-> Tree(h, h[v.a][key])])
      [] v.k = "arr" -> Arr([j \in 1..Len(v.vs) |-> Tree(h, v.vs[j])])
      [] OTHER -> v

\* data.NewMap and its like, applied bottom-up to a value written out in
\* full: the heap with the new objects, and the value naming them
\* (Len(h) >= 0 is always true: it has TLC compute the heap so far before
\* the next object is added to it)
RECURSIVE Alloc(_, _), AllocFields(_, _, _, _), AllocSeq(_, _, _)
Alloc(h, lit) ==
    CASE lit.k = "map" ->
            LET r == AllocFields(h, lit.f, DOMAIN lit.f, EmptyFields)
            IN  [h |-> Append(r.h, r.f), v |-> Ref(Len(r.h) + 1)]
      [] lit.k = "arr" ->
            LET r == AllocSeq(h, lit.vs, <<>>)
            IN  [h |-> r.h, v |-> Arr(r.vs)]
      [] OTHER -> [h |-> h, v |-> lit]
AllocFields(h, f, keys, done) ==
    IF Len(h) >= 0 /\ keys = {} THEN [h |-> h, f |-> done]
    ELSE LET key == CHOOSE x \in keys : TRUE
             r == Alloc(h, f[key])
         IN  AllocFields(r.h, f, keys \ {key}, PutField(done, key, r.v))
AllocSeq(h, vs, done) ==
    IF Len(h) >= 0 /\ vs = <<>> THEN [h |-> h, vs |-> done]
    ELSE LET r == Alloc(h, Head(vs))
         IN  AllocSeq(r.h, Tail(vs), Append(done, r.v))

(***************************************************************************)
(* Structural projection and the event envelope.                           *)
(***************************************************************************)
\* Map.ToStructValue: the keys holding nil or a Null are left out.  Arrays
\* and scalars project element by element and to themselves.
RECURSIVE ToStructValue(_)
ToStructValue(t) ==
    CASE t.k = "map" ->
            MapV([key \in {x \in DOMAIN t.f : t.f[x].k \notin {"nil", "null"}}
                    |-> ToStructValue(t.f[key])])
      [] t.k = "arr" -> Arr([j \in 1..Len(t.vs) |-> ToStructValue(t.vs[j])])
      [] OTHER -> t

\* (*Map).ToStructValue, the other definition of the method: a key holding
\* nil is kept with the null value, every other key is kept with the
\* projection of its value, a Null's being the null value
RECURSIVE PtrToStructValue(_)
PtrToStructValue(t) ==
    CASE t.k = "map" ->
            MapV([key \in DOMAIN t.f |->
                    IF t.f[key].k = "nil" THEN Null ELSE PtrToStructValue(t.f[key])])
      [] t.k = "arr" -> Arr([j \in 1..Len(t.vs) |-> PtrToStructValue(t.vs[j])])
      [] OTHER -> t

\* protojson.Marshal then json.Unmarshal into a map[string]any: a JSON
\* object and JSON null decode, anything else is an error
UnmarshalsToMap(s) == s.k \in {"map", "null"}

\* Event{}: no tag, no payload
EmptyEvent == [event |-> "", componentID |-> <<>>, batchIndex |-> 0, data |-> Nil]

\* the channel a handler publishes on: wfm.ID
ChannelOfFirst(ws, hd) == ws[1].ID
ChannelOf(ws, hd) == ws[hd].ID

\* what a handler did: the heap it leaves, what it returns, and the event
\* it hands to Publish (pub) before it returns
Out(h, res, val) == [h |-> h, res |-> res, val |-> val, pub |-> FALSE, ev |-> EmptyEvent]
OutPub(h, ev) == [h |-> h, res |-> "ok", val |-> Nil, pub |-> TRUE, ev |-> ev]

\* wfm.Data[batchIdx] does not panic
InRange(w, batchIdx) == batchIdx >= 0 /\ batchIdx < Len(w.Data)

\* wfm.Data[batchIdx].(*data.Map).Fields
RootAddr(w, batchIdx) == w.Data[batchIdx + 1].a
RootFields(h, w, batchIdx) == h[RootAddr(w, batchIdx)]

(***************************************************************************)
(* workflowMemory handlers: what each does between Lock and Unlock.        *)
(***************************************************************************)
\* constant.SegInput, constant.SegOutput: the keys of a component's input
\* and output
SegInput == K("input")
SegOutput == K("output")

\* the five maps InitComponent builds, compMemory last
CompSkeleton(n) ==
    <<EmptyFields, EmptyFields,
      (ComponentStatusStarted :> Bool(FALSE)) @@ (ComponentStatusSkipped :> Bool(FALSE))
          @@ (ComponentStatusCompleted :> Bool(FALSE)),
      EmptyFields,
      (SegInput :> Ref(n + 1)) @@ (SegOutput :> Ref(n + 2))
          @@ (StatusKey :> Ref(n + 3)) @@ (ComponentDataSetup :> Ref(n + 4))>>

InitComponentBodyKeep(h, w, batchIdx, componentID) ==
    IF ~InRange(w, batchIdx) THEN Out(h, "panic", Nil)
    ELSE IF componentID \in DOMAIN h[RootAddr(w, batchIdx)] THEN Out(h, "ok", Nil)
    ELSE Out(HeapPut(h \o CompSkeleton(Len(h)), RootAddr(w, batchIdx),
                     componentID, Ref(Len(h) + 5)),
             "ok", Nil)
InitComponentBody(h, w, batchIdx, componentID) ==
    IF ~InRange(w, batchIdx) THEN Out(h, "panic", Nil)
    ELSE Out(HeapPut(h \o CompSkeleton(Len(h)), RootAddr(w, batchIdx),
                     componentID, Ref(Len(h) + 5)),
             "ok", Nil)

\* the event SetComponentData builds for tag t
ComponentDataEvent(componentID, t, data) ==
    IF t = ComponentDataInput
    THEN [event |-> ComponentInputUpdated, componentID |-> componentID,
          batchIndex |-> 0, data |-> data]
    ELSE IF t = ComponentDataOutput
    THEN [event |-> ComponentOutputUpdated, componentID |-> componentID,
          batchIndex |-> 0, data |-> data]
    ELSE EmptyEvent

\* _, ok := wfm.Data[batchIdx].(*data.Map).Fields[componentID]
ComponentExistsAnyBatch(h, w, batchIdx, componentID) ==
    \E j \in 1..Len(w.Data) : componentID \in DOMAIN h[w.Data[j].a]
ComponentExists(h, w, batchIdx, componentID) ==
    componentID \in DOMAIN RootFields(h, w, batchIdx)

\* where SetComponentData stores the value
ComponentDataSlotWrong(h, w, batchIdx, componentID, t) ==
    [a |-> RootAddr(w, batchIdx), key |-> t]
ComponentDataSlot(h, w, batchIdx, componentID, t) ==
    [a |-> GetField(RootFields(h, w, batchIdx), componentID).a, key |-> t]

SetComponentDataBody(h, w, batchIdx, componentID, t, value) ==
    IF ~InRange(w, batchIdx) THEN Out(h, "panic", Nil)
    ELSE IF ~ComponentExists(h, w, batchIdx, componentID)
    THEN Out(h, "component not exist", Nil)
    ELSE IF GetField(RootFields(h, w, batchIdx), componentID).k # "ref" THEN Out(h, "panic", Nil)
    ELSE LET slot == ComponentDataSlot(h, w, batchIdx, componentID, t)
             h2 == HeapPut(h, slot.a, slot.key, value)
         IN  IF ~w.streaming THEN Out(h2, "ok", Nil)
             ELSE IF value.k = "nil" THEN Out(h2, "panic", Nil)
             ELSE LET s == ToStructValue(Tree(h2, value))
                  IN  IF ~UnmarshalsToMap(s) THEN Out(h2, "unmarshal error", Nil)
                      ELSE OutPub(h2, ComponentDataEvent(componentID, t, s))

GetComponentDataBody(h, w, batchIdx, componentID, t) ==
    IF ~InRange(w, batchIdx) THEN Out(h, "panic", Nil)
    ELSE IF ~ComponentExists(h, w, batchIdx, componentID)
    THEN Out(h, "component not exist", Nil)
    ELSE IF GetField(RootFields(h, w, batchIdx), componentID).k # "ref" THEN Out(h, "panic", Nil)
    ELSE Out(h, "ok", GetField(h[GetField(RootFields(h, w, batchIdx), componentID).a], t))

\* the status map of a component is there, with its three flags Booleans
HasStatusMap(h, comp) ==
    /\ comp.k = "ref"
    /\ GetField(h[comp.a], StatusKey).k = "ref"
StatusFlagsAreBooleans(st) ==
    \A f \in {ComponentStatusStarted, ComponentStatusSkipped, ComponentStatusCompleted} :
        GetField(st, f).k = "bool"

\* the status triple SetComponentStatus reads back for its event
StatusTripleStale(old, new) ==
    MapV([f \in {ComponentStatusStarted, ComponentStatusSkipped, ComponentStatusCompleted}
            |-> Bool(old[f].b)])
StatusTriple(old, new) ==
    MapV([f \in {ComponentStatusStarted, ComponentStatusSkipped, ComponentStatusCompleted}
            |-> Bool(new[f].b)])

SetComponentStatusBody(h, w, batchIdx, componentID, t, value) ==
    IF ~InRange(w, batchIdx) THEN Out(h, "panic", Nil)
    ELSE IF ~ComponentExists(h, w, batchIdx, componentID)
    THEN Out(h, "component not exist", Nil)
    ELSE IF ~HasStatusMap(h, GetField(RootFields(h, w, batchIdx), componentID))
    THEN Out(h, "panic", Nil)
    ELSE LET sa == h[GetField(RootFields(h, w, batchIdx), componentID).a][StatusKey].a
             h2 == HeapPut(h, sa, t, Bool(value))
         IN  IF ~w.streaming THEN Out(h2, "ok", Nil)
             ELSE IF ~StatusFlagsAreBooleans(h2[sa]) THEN Out(h2, "panic", Nil)
             ELSE OutPub(h2, [event |-> ComponentStatusUpdated,
                              componentID |-> componentID,
                              batchIndex |-> batchIdx,
                              data |-> StatusTriple(h[sa], h2[sa])])

GetComponentStatusBody(h, w, batchIdx, componentID, t) ==
    IF ~InRange(w, batchIdx) THEN Out(h, "panic", Nil)
    ELSE IF ~ComponentExists(h, w, batchIdx, componentID)
    THEN Out(h, "component not exist", Nil)
    ELSE IF ~HasStatusMap(h, GetField(RootFields(h, w, batchIdx), componentID))
    THEN Out(h, "panic", Nil)
    ELSE LET st == h[h[GetField(RootFields(h, w, batchIdx), componentID).a][StatusKey].a]
         IN  IF GetField(st, t).k # "bool" THEN Out(h, "panic", Nil)
             ELSE Out(h, "ok", st[t])

\* the event SetPipelineData builds for tag t
PipelineDataEvent(t, data) ==
    IF t = PipelineOutput
    THEN [event |-> PipelineOutputUpdated, componentID |-> <<>>,
          batchIndex |-> 0, data |-> data]
    ELSE EmptyEvent

\* the root map SetPipelineData and Set write to
TargetRootFirst(w, batchIdx) == w.Data[1].a
TargetRoot(w, batchIdx) == RootAddr(w, batchIdx)

SetPipelineDataBody(h, w, batchIdx, t, value) ==
    IF ~InRange(w, batchIdx) THEN Out(h, "panic", Nil)
    ELSE LET h2 == HeapPut(h, TargetRoot(w, batchIdx), t, value)
         IN  IF ~w.streaming THEN Out(h2, "ok", Nil)
             ELSE IF value.k = "nil" THEN Out(h2, "panic", Nil)
             ELSE LET s == ToStructValue(Tree(h2, value))
                  IN  IF ~UnmarshalsToMap(s) THEN Out(h2, "unmarshal error", Nil)
                      ELSE OutPub(h2, PipelineDataEvent(t, s))

GetPipelineDataBody(h, w, batchIdx, t) ==
    IF ~InRange(w, batchIdx) THEN Out(h, "panic", Nil)
    ELSE IF t \notin DOMAIN RootFields(h, w, batchIdx) THEN Out(h, "not exist", Nil)
    ELSE Out(h, "ok", RootFields(h, w, batchIdx)[t])

SetBody(h, w, batchIdx, key, value) ==
    IF ~InRange(w, batchIdx) THEN Out(h, "panic", Nil)
    ELSE Out(HeapPut(h, TargetRoot(w, batchIdx), key, value), "ok", Nil)

(***************************************************************************)
(* workflowMemory.Get: the path code.                                      *)
(***************************************************************************)
Quote == "\""
Digits == <<"0", "1", "2", "3", "4", "5", "6", "7", "8", "9">>
IsDigit(c) == \E d \in 1..Len(Digits) : Digits[d] = c
DigitVal(c) == (CHOOSE d \in 1..Len(Digits) : Digits[d] = c) - 1

\* strings.FieldsFunc(path, s == '.' || s == '['): the runs between the
\* separators, the empty ones dropped
RECURSIVE FieldsFunc(_, _, _)
FieldsFunc(p, field, acc) ==
    IF p = <<>> THEN (IF field = <<>> THEN acc ELSE Append(acc, field))
    ELSE IF Head(p) \in {".", "["}
    THEN FieldsFunc(Tail(p), <<>>, IF field = <<>> THEN acc ELSE Append(acc, field))
    ELSE FieldsFunc(Tail(p), Append(field, Head(p)), acc)

\* newPath: [N] for a split ending in "]", ["key"] for any other
RECURSIVE NewPath(_)
NewPath(splits) ==
    IF splits = <<>> THEN <<>>
    ELSE (IF Head(splits)[Len(Head(splits))] = "]"
          THEN <<"[">> \o Head(splits)
          ELSE <<"[", Quote>> \o Head(splits) \o <<Quote, "]">>)
         \o NewPath(Tail(splits))

\* strings.Split(s, "][")
RECURSIVE SplitBrackets(_, _, _)
SplitBrackets(s, piece, acc) ==
    IF s = <<>> THEN Append(acc, piece)
    ELSE IF Len(s) >= 2 /\ s[1] = "]" /\ s[2] = "["
    THEN SplitBrackets(SubSeq(s, 3, Len(s)), <<>>, Append(acc, piece))
    ELSE SplitBrackets(Tail(s), Append(piece, Head(s)), acc)

\* strconv.Atoi(s) returns no error: an optional sign, then digits
AtoiOk(s) ==
    LET body == IF s # <<>> /\ Head(s) \in {"+", "-"} THEN Tail(s) ELSE s
    IN  body # <<>> /\ \A j \in 1..Len(body) : IsDigit(body[j])
RECURSIVE AtoiDigits(_, _)
AtoiDigits(body, n) ==
    IF body = <<>> THEN n ELSE AtoiDigits(Tail(body), 10 * n + DigitVal(Head(body)))
Atoi(s) ==
    IF Head(s) = "-" THEN 0 - AtoiDigits(Tail(s), 0)
    ELSE IF Head(s) = "+" THEN AtoiDigits(Tail(s), 0)
    ELSE AtoiDigits(s, 0)

\* key := s[1 : len(s)-1]
StepKeyUnsliced(s) == s
StepKey(s) == SubSeq(s, 2, Len(s) - 1)

\* the loop over ss: an index step asserts *data.Array and indexes Values,
\* a key step slices the quotes off and asserts *data.Map
RECURSIVE Walk(_, _, _)
Walk(h, ptr, ss) ==
    IF ss = <<>> THEN Out(h, "ok", ptr)
    ELSE LET s == Head(ss)
         IN  IF AtoiOk(s)
             THEN IF ptr.k # "arr" \/ Atoi(s) < 0 \/ Atoi(s) >= Len(ptr.vs)
                  THEN Out(h, "panic", Nil)
                  ELSE Walk(h, ptr.vs[Atoi(s) + 1], Tail(ss))
             ELSE IF Len(s) < 2 \/ ptr.k # "ref"
                  THEN Out(h, "panic", Nil)
                  ELSE Walk(h, GetField(h[ptr.a], StepKey(s)), Tail(ss))

GetBody(h, w, batchIdx, path) ==
    IF ~InRange(w, batchIdx) THEN Out(h, "panic", Nil)
    ELSE IF path = <<>> THEN Out(h, "ok", w.Data[batchIdx + 1])
    ELSE LET newPath == NewPath(FieldsFunc(path, <<>>, <<>>))
         IN  IF Len(newPath) < 2 THEN Out(h, "panic", Nil)
             ELSE Walk(h, w.Data[batchIdx + 1],
                       SplitBrackets(SubSeq(newPath, 2, Len(newPath) - 1), <<>>, <<>>))

GetBatchSize(w) == Len(w.Data)

(***************************************************************************)
(* memoryStore: construction.                                              *)
(***************************************************************************)
\* the maps NewWorkflowMemory builds for batchSize indices on a heap of n
\* objects: per index variable, secret, output, then the root map m
NewRootMapsShared(n, batchSize) ==
    [j \in 1..(4 * batchSize) |->
        IF j % 4 = 0
        THEN (PipelineVariable :> Ref(n + 1)) @@ (PipelineSecret :> Ref(n + 2))
                 @@ (PipelineOutput :> Ref(n + 3))
        ELSE EmptyFields]
NewRootMaps(n, batchSize) ==
    [j \in 1..(4 * batchSize) |->
        IF j % 4 = 0
        THEN (PipelineVariable :> Ref(n + j - 3)) @@ (PipelineSecret :> Ref(n + j - 2))
                 @@ (PipelineOutput :> Ref(n + j - 1))
        ELSE EmptyFields]

\* wfmData
NewDataOne(n, batchSize) == <<Ref(n + 4)>>
NewData(n, batchSize) == [j \in 1..batchSize |-> Ref(n + 4 * j)]

\* &workflowMemory{ID, Data, Recipe, redisClient}: streaming is left false
NewWfmStreaming(workflowID, recipe, n, batchSize) ==
    [ID |-> workflowID, Data |-> NewData(n, batchSize), Recipe |-> recipe,
     streaming |-> TRUE]
NewWfm(workflowID, recipe, n, batchSize) ==
    [ID |-> workflowID, Data |-> NewData(n, batchSize), Recipe |-> recipe,
     streaming |-> FALSE]

(***************************************************************************)
(* Inputs.                                                                 *)
(***************************************************************************)
BatchSize == 2
BatchIdx == 0..(BatchSize - 1)
Comps == {K("c1"), K("c2")}
Lits == {MapV(K("x") :> Num(1)), MapV(K("y") :> Num(2))}
NoRecipe == "nil"
Recipes == {"r1", "r2"}

\* the value caller t writes
LitOf(t) == MapV(K("x") :> Num(t))

\* the calls concurrent caller t makes on the workflow
ConcCalls(t) ==
    [op : {"SetComponentData"}, i : {0}, c : Comps, t : {ComponentDataInput},
     lit : {LitOf(t)}]
    \cup [op : {"SetComponentStatus"}, i : {0}, c : {K("c1")},
          t : {ComponentStatusStarted, ComponentStatusCompleted}, b : BOOLEAN]
    \cup [op : {"SetPipelineData"}, i : BatchIdx, t : {PipelineOutput}, lit : {LitOf(t)}]
ConcIds == {"w1"}

\* the handler a call runs
Dispatch(h, w, call, value) ==
    CASE call.op = "SetComponentData" ->
            SetComponentDataBody(h, w, call.i, call.c, call.t, value)
      [] call.op = "SetComponentStatus" ->
            SetComponentStatusBody(h, w, call.i, call.c, call.t, call.b)
      [] call.op = "SetPipelineData" -> SetPipelineDataBody(h, w, call.i, call.t, value)
      [] call.op = "Set" -> SetBody(h, w, call.i, call.key, value)
      [] call.op = "InitComponent" -> InitComponentBody(h, w, call.i, call.c)
      [] call.op = "GetComponentData" ->
            GetComponentDataBody(h, w, call.i, call.c, call.t)
      [] call.op = "GetComponentStatus" ->
            GetComponentStatusBody(h, w, call.i, call.c, call.t)
      [] call.op = "GetPipelineData" -> GetPipelineDataBody(h, w, call.i, call.t)
      [] call.op = "Get" -> GetBody(h, w, call.i, call.path)

\* the handler on the value the caller built for it (call.lit); a value
\* the handler did not store is garbage and leaves the heap as it was
Handler(h, w, call) ==
    IF "lit" \in DOMAIN call
    THEN LET r == Alloc(h, call.lit)
             out == Dispatch(r.h, w, call, r.v)
         IN  IF out.h = r.h THEN [out EXCEPT !.h = h] ELSE out
    ELSE Dispatch(h, w, call, Nil)

\* the trees below wfm.Data, index by index
DataTree(h, w) == [j \in 1..Len(w.Data) |-> Tree(h, w.Data[j])]

(***************************************************************************)
(* The concurrent callers of one workflow.                                 *)
(***************************************************************************)
\* the workflow every caller holds: w1, its components initialised at
\* index 0 and c1 alone at the other indices
InitHeap ==
    LET h0 == NewRootMaps(0, BatchSize)
        w == NewWfm("w1", "r1", 0, BatchSize)
        h1 == InitComponentBody(h0, w, 0, K("c1")).h
        h2 == InitComponentBody(h1, w, 0, K("c2")).h
    IN  IF BatchSize > 1 THEN InitComponentBody(h2, w, 1, K("c1")).h ELSE h2

Idle == [op |-> "none"]
NoRet == [op |-> "none", res |-> "none", val |-> Nil]
NoBlob == [k |-> "none"]
WfIds == {"w1", "w2"}

Init ==
    /\ heap = InitHeap
    /\ \E s \in BOOLEAN :
          wfms = <<[NewWfm("w1", "r1", 0, BatchSize) EXCEPT !.streaming = s]>>
    /\ mu = <<0>>
    /\ registry = [id \in WfIds |-> IF id = "w1" THEN 1 ELSE 0]
    /\ redis = [id \in WfIds |-> NoBlob]
    /\ bus = <<>>
    /\ pc = [t \in Threads |-> "idle"]
    /\ cur = [t \in Threads |-> Idle]
    /\ ret = [t \in Threads |-> NoRet]
    /\ mlog = <<>>
    /\ ops = 0

\* wfm.mu.Lock() returns
CanLockNoMutex(m) == TRUE
CanLock(m) == m = 0

\* every snapshot being encoded has now seen the data as it is in h
Observe(c, h) ==
    [t \in Threads |->
        IF pc[t] = "encoding"
        THEN [c[t] EXCEPT !.seen = @ \cup {DataTree(h, wfms[c[t].w])}]
        ELSE c[t]]

\* Lock, the handler up to its call of Publish or its return, and with the
\* return the deferred Unlock
Begin(t, call) ==
    /\ pc[t] = "idle"
    /\ ops < MaxOps
    /\ CanLock(mu[1])
    /\ \E out \in {Handler(heap, wfms[1], call)} :
       \E entry \in {[t |-> t, call |-> call, res |-> out.res, pub |-> out.pub,
                      ev |-> out.ev, streaming |-> wfms[1].streaming,
                      ret |-> IF out.pub THEN "pending" ELSE out.res,
                      w |-> 1,
                      before |-> DataTree(heap, wfms[1]),
                      after |-> DataTree(out.h, wfms[1])]} :
          /\ heap' = out.h
          /\ mlog' = Append(mlog, entry)
          /\ ops' = ops + 1
          /\ IF out.pub
             THEN /\ mu' = [mu EXCEPT ![1] = t]
                  /\ pc' = [pc EXCEPT ![t] = "publish"]
                  /\ cur' = [Observe(cur, out.h) EXCEPT
                                ![t] = [op |-> call.op, w |-> 1, call |-> call,
                                        ev |-> out.ev, m |-> Len(mlog) + 1]]
                  /\ ret' = ret
             ELSE /\ mu' = mu
                  /\ pc' = pc
                  /\ cur' = Observe(cur, out.h)
                  /\ ret' = [ret EXCEPT ![t] = [op |-> call.op, res |-> out.res,
                                                val |-> out.val]]
    /\ UNCHANGED <<wfms, registry, redis, bus>>

\* the deferred wfm.mu.Unlock()
UnlockSkipped(m, hd) == m
Unlock(m, hd) == [m EXCEPT ![hd] = 0]

\* wfm.redisClient.Publish succeeds, the handler returns nil
PublishOk(t) ==
    /\ pc[t] = "publish"
    /\ bus' = Append(bus, [ch |-> ChannelOf(wfms, cur[t].w), ev |-> cur[t].ev, m |-> cur[t].m])
    /\ mu' = Unlock(mu, cur[t].w)
    /\ pc' = [pc EXCEPT ![t] = "idle"]
    /\ ret' = [ret EXCEPT ![t] = [op |-> cur[t].op, res |-> "ok", val |-> Nil]]
    /\ cur' = [cur EXCEPT ![t] = Idle]
    /\ mlog' = [mlog EXCEPT ![cur[t].m].ret = "ok"]
    /\ UNCHANGED <<heap, wfms, registry, redis, ops>>

\* wfm.redisClient.Publish fails, the handler returns its error
PublishFail(t) ==
    /\ pc[t] = "publish"
    /\ mu' = Unlock(mu, cur[t].w)
    /\ pc' = [pc EXCEPT ![t] = "idle"]
    /\ ret' = [ret EXCEPT ![t] = [op |-> cur[t].op, res |-> "publish error", val |-> Nil]]
    /\ cur' = [cur EXCEPT ![t] = Idle]
    /\ mlog' = [mlog EXCEPT ![cur[t].m].ret = "publish error"]
    /\ UNCHANGED <<heap, wfms, registry, redis, bus, ops>>

\* EnableStreaming: no lock taken
EnableStreaming(t) ==
    /\ pc[t] = "idle"
    /\ ops < MaxOps
    /\ wfms' = [wfms EXCEPT ![1].streaming = TRUE]
    /\ ops' = ops + 1
    /\ ret' = [ret EXCEPT ![t] = [op |-> "EnableStreaming", res |-> "ok", val |-> Nil]]
    /\ UNCHANGED <<heap, mu, registry, redis, bus, pc, cur, mlog>>

(***************************************************************************)
(* Snapshot to the durable store.                                          *)
(***************************************************************************)
\* the binary codec of data.Value: encoding writes out the values below a
\* pointer, decoding builds new maps for them (an empty map stays a map)
GobValue(h, v) == Tree(h, v)
GobDecodeValue(h, blobValue) == Alloc(h, blobValue)

\* gob of a workflowMemory: the exported fields ID, Data and Recipe, the
\* pointers of Data flattened into the values they point to
GobWfmNoRecipe(id, data, recipe) ==
    [k |-> "blob", ID |-> id, Data |-> data, Recipe |-> NoRecipe]
GobWfm(id, data, recipe) ==
    [k |-> "blob", ID |-> id, Data |-> data, Recipe |-> recipe]

\* the expiration WriteWorkflowMemoryToRedis passes to Set: 1*time.Hour, in
\* seconds
Hour == 3600

\* redisClient.Set(key, blob, expiration): the value under the key is
\* replaced and its time to live starts again; age is the seconds since
RedisSetKeepTTL(rd, workflowID, blob, expiration) ==
    [rd EXCEPT ![workflowID] =
        [k |-> blob.k, ID |-> blob.ID, Data |-> blob.Data, Recipe |-> blob.Recipe,
         age |-> IF rd[workflowID] = NoBlob THEN 0 ELSE rd[workflowID].age,
         ttl |-> expiration]]
RedisSet(rd, workflowID, blob, expiration) ==
    [rd EXCEPT ![workflowID] =
        [k |-> blob.k, ID |-> blob.ID, Data |-> blob.Data, Recipe |-> blob.Recipe,
         age |-> 0, ttl |-> expiration]]

\* the key has outlived its time to live
Expired(entry) == entry.k = "blob" /\ entry.age >= entry.ttl

\* WriteWorkflowMemoryToRedis: ms.workflows.Load, and the encoder started
WriteBegin(t, workflowID) ==
    /\ pc[t] = "idle"
    /\ ops < MaxOps
    /\ ops' = ops + 1
    /\ IF registry[workflowID] = 0
       THEN /\ ret' = [ret EXCEPT ![t] = [op |-> "Write", res |-> "workflow memory not found",
                                          val |-> Nil]]
            /\ UNCHANGED <<pc, cur>>
       ELSE /\ pc' = [pc EXCEPT ![t] = "encoding"]
            /\ cur' = [cur EXCEPT ![t] =
                          [op |-> "Write", w |-> registry[workflowID], id |-> workflowID,
                           part |-> <<>>,
                           seen |-> {DataTree(heap, wfms[registry[workflowID]])}]]
            /\ ret' = ret
    /\ UNCHANGED <<heap, wfms, mu, registry, redis, bus, mlog>>

\* enc.Encode(wfm) reaches the next element of Data; wfm.mu is not taken
EncodeElem(t) ==
    /\ pc[t] = "encoding"
    /\ Len(cur[t].part) < Len(wfms[cur[t].w].Data)
    /\ cur' = [cur EXCEPT ![t].part =
                  Append(@, GobValue(heap, wfms[cur[t].w].Data[Len(cur[t].part) + 1]))]
    /\ UNCHANGED <<heap, wfms, mu, registry, redis, bus, pc, ret, mlog, ops>>

\* the encoder done, redisClient.Set stores the blob
WriteSetOk(t) ==
    /\ pc[t] = "encoding"
    /\ Len(cur[t].part) = Len(wfms[cur[t].w].Data)
    /\ LET w == wfms[cur[t].w]
           blob == GobWfm(w.ID, cur[t].part, w.Recipe)
       IN  /\ redis' = RedisSet(redis, cur[t].id, blob, Hour)
           /\ ret' = [ret EXCEPT ![t] = [op |-> "Write", res |-> "ok", val |-> Nil,
                                         blob |-> blob, seen |-> cur[t].seen]]
    /\ pc' = [pc EXCEPT ![t] = "idle"]
    /\ cur' = [cur EXCEPT ![t] = Idle]
    /\ UNCHANGED <<heap, wfms, mu, registry, bus, mlog, ops>>

\* redisClient.Set fails
WriteSetFail(t) ==
    /\ pc[t] = "encoding"
    /\ Len(cur[t].part) = Len(wfms[cur[t].w].Data)
    /\ ret' = [ret EXCEPT ![t] = [op |-> "Write", res |-> "redis error", val |-> Nil]]
    /\ pc' = [pc EXCEPT ![t] = "idle"]
    /\ cur' = [cur EXCEPT ![t] = Idle]
    /\ UNCHANGED <<heap, wfms, mu, registry, redis, bus, mlog, ops>>

Next ==
    \E t \in Threads :
        \/ \E call \in ConcCalls(t) : Begin(t, call)
        \/ PublishOk(t)
        \/ PublishFail(t)
        \/ EnableStreaming(t)
        \/ \E id \in ConcIds : WriteBegin(t, id)
        \/ EncodeElem(t)
        \/ WriteSetOk(t)
        \/ WriteSetFail(t)

Spec == Init /\ [][Next]_vars

(***************************************************************************)
(* One caller at a time: every action is a whole handler.                  *)
(***************************************************************************)
MutatingOps ==
    {"Set", "InitComponent", "SetComponentData", "SetComponentStatus", "SetPipelineData"}

\* the heap a handler leaves behind when Publish has returned: the error
\* is returned, the write is not undone
AfterPublishRollback(h0, h1, failed) == IF failed THEN h0 ELSE h1
AfterPublish(h0, h1, failed) == h1

\* a whole handler on handle hd: Lock, the body, Publish (which fails when
\* pubFails), the deferred Unlock
Invoke(t, hd, call, pubFails) ==
    /\ pc[t] = "idle"
    /\ ops < MaxSeqOps
    /\ CanLock(mu[hd])
    /\ \E out \in {Handler(heap, wfms[hd], call)} :
          /\ pubFails => out.pub
          /\ \E h2 \in {IF out.pub THEN AfterPublish(heap, out.h, pubFails) ELSE out.h} :
             \E entry \in {[t |-> t, call |-> call, res |-> out.res, pub |-> out.pub,
                            ev |-> out.ev, streaming |-> wfms[hd].streaming,
                            ret |-> IF out.pub /\ pubFails THEN "publish error" ELSE out.res,
                            w |-> hd,
                            before |-> DataTree(heap, wfms[hd]),
                            after |-> DataTree(h2, wfms[hd])]} :
                /\ heap' = h2
                /\ bus' = IF out.pub /\ ~pubFails
                          THEN Append(bus, [ch |-> ChannelOf(wfms, hd), ev |-> out.ev,
                                            m |-> Len(mlog) + 1])
                          ELSE bus
                /\ mlog' = IF call.op \in MutatingOps THEN Append(mlog, entry) ELSE mlog
                /\ ret' = [ret EXCEPT ![t] =
                              [op |-> call.op, res |-> entry.ret, val |-> out.val,
                               call |-> call, w |-> hd, streaming |-> entry.streaming,
                               evs |-> IF out.pub /\ ~pubFails THEN <<out.ev>> ELSE <<>>,
                               before |-> entry.before, after |-> entry.after]]
    /\ ops' = ops + 1
    /\ UNCHANGED <<wfms, mu, registry, redis, pc, cur>>

\* EnableStreaming on handle hd
SeqEnableStreaming(t, hd) ==
    /\ pc[t] = "idle"
    /\ ops < MaxSeqOps
    /\ wfms' = [wfms EXCEPT ![hd].streaming = TRUE]
    /\ ops' = ops + 1
    /\ ret' = [ret EXCEPT ![t] = [op |-> "EnableStreaming", res |-> "ok", val |-> Nil,
                                  w |-> hd]]
    /\ UNCHANGED <<heap, mu, registry, redis, bus, pc, cur, mlog>>

\* the batch indices callers pass that the workflow does not have
BadIdx == {0 - 1, BatchSize}
StrLit == Str("s")

\* the calls of the sequential caller: writes,
WfmWrites ==
    [op : {"Set"}, i : {0}, key : {K("c1")}, lit : {StrLit}]
    \cup [op : {"Set"}, i : BatchIdx, key : {K("k")}, lit : {LitOf(1)}]
    \cup [op : {"InitComponent"}, i : {0}, c : {K("c1")}]
    \cup [op : {"InitComponent"}, i : {1}, c : {K("c2")}]
    \cup [op : {"SetComponentData"}, i : {0}, c : Comps, t : {ComponentDataInput},
          lit : {LitOf(1)}]
    \cup [op : {"SetComponentData"}, i : BatchIdx, c : {K("c1")}, t : {ComponentDataSetup},
          lit : {LitOf(2)}]
    \cup [op : {"SetComponentStatus"}, i : {0}, c : {K("c1")},
          t : {ComponentStatusStarted}, b : BOOLEAN]
    \cup [op : {"SetComponentStatus"}, i : {1}, c : Comps,
          t : {ComponentStatusCompleted}, b : {TRUE}]
    \cup [op : {"SetPipelineData"}, i : BatchIdx, t : {PipelineOutput}, lit : {LitOf(1)}]
    \cup [op : {"SetPipelineData"}, i : {0}, t : {PipelineVariable}, lit : {LitOf(2)}]
    \cup [op : {"SetComponentData"}, i : {1}, c : {K("c2")}, t : {ComponentDataInput},
          lit : {LitOf(1)}]

\* reads,
WfmReads ==
    [op : {"Get"}, i : {0}, path : {<<>>, K("variable")}]
    \cup [op : {"GetComponentData"}, i : BatchIdx, c : Comps, t : {ComponentDataInput}]
    \cup [op : {"GetComponentStatus"}, i : BatchIdx, c : {K("c1")},
          t : {ComponentStatusStarted}]
    \cup [op : {"GetComponentStatus"}, i : {1}, c : {K("c2")},
          t : {ComponentStatusCompleted}]
    \cup [op : {"GetPipelineData"}, i : BatchIdx, t : {PipelineVariable}]

\* and every handler with a batch index out of range
WfmBadIdx ==
    [op : {"Set"}, i : BadIdx, key : {K("k")}, lit : {LitOf(1)}]
    \cup [op : {"Get"}, i : BadIdx, path : {<<>>, K("variable")}]
    \cup [op : {"InitComponent"}, i : BadIdx, c : {K("c1")}]
    \cup [op : {"SetComponentData"}, i : BadIdx, c : {K("c1")}, t : {ComponentDataInput},
          lit : {LitOf(1)}]
    \cup [op : {"GetComponentData"}, i : BadIdx, c : {K("c1")}, t : {ComponentDataInput}]
    \cup [op : {"SetComponentStatus"}, i : BadIdx, c : {K("c1")},
          t : {ComponentStatusStarted}, b : {TRUE}]
    \cup [op : {"GetComponentStatus"}, i : BadIdx, c : {K("c1")},
          t : {ComponentStatusStarted}]
    \cup [op : {"SetPipelineData"}, i : BadIdx, t : {PipelineOutput}, lit : {LitOf(1)}]
    \cup [op : {"GetPipelineData"}, i : BadIdx, t : {PipelineVariable}]

WfmCalls == WfmWrites \cup WfmReads \cup WfmBadIdx

NextWfm ==
    \/ \E call \in WfmCalls, pubFails \in BOOLEAN : Invoke(1, 1, call, pubFails)
    \/ SeqEnableStreaming(1, 1)

SpecWfm == Init /\ [][NextWfm]_vars

(***************************************************************************)
(* One caller of Set and Get: the paths.                                   *)
(***************************************************************************)
\* a path written step by step: a map key or an array index
KeyStep(key) == [s |-> "key", key |-> key]
IdxStep(n) == [s |-> "idx", n |-> n]

\* the path string a caller writes for the steps: keys joined by ".", an
\* index as [N]
RECURSIVE Render(_)
Render(steps) ==
    IF steps = <<>> THEN <<>>
    ELSE LET st == steps[Len(steps)]
             front == Render(SubSeq(steps, 1, Len(steps) - 1))
         IN  IF st.s = "idx" THEN front \o <<"[", Digits[st.n + 1], "]">>
             ELSE IF front = <<>> THEN st.key
             ELSE front \o <<".">> \o st.key

\* {"b": [{"c": 10}, {"c": 20}]}
Nested == MapV(K("b") :> Arr(<<MapV(K("c") :> Num(10)), MapV(K("c") :> Num(20))>>))
Ada == MapV(K("name") :> Str("Ada"))

\* the keys the caller passes to Set
PathKeys ==
    {K("a"), K("0"), <<"a", ".", "b">>, <<"a", "]", "b">>, <<"a", "]">>, <<>>}

\* the steps of the paths the caller passes to Get
GetSteps ==
    {<<>>,
     <<KeyStep(K("a"))>>,
     <<KeyStep(K("0"))>>,
     <<KeyStep(K("a")), KeyStep(K("b"))>>,
     <<KeyStep(K("a")), KeyStep(K("b")), IdxStep(1)>>,
     <<KeyStep(K("a")), KeyStep(K("b")), IdxStep(0), KeyStep(K("c"))>>,
     <<KeyStep(K("a")), KeyStep(K("b")), IdxStep(1), KeyStep(K("c"))>>,
     <<KeyStep(K("a")), KeyStep(K("b")), IdxStep(2), KeyStep(K("c"))>>,
     <<KeyStep(K("a")), KeyStep(K("b")), KeyStep(K("c"))>>,
     <<KeyStep(K("a")), IdxStep(0)>>,
     <<IdxStep(0)>>,
     <<KeyStep(K("a")), KeyStep(K("z"))>>,
     <<KeyStep(K("a")), KeyStep(K("z")), KeyStep(K("c"))>>,
     <<KeyStep(K("z"))>>,
     <<KeyStep(PipelineVariable), KeyStep(K("name"))>>,
     <<KeyStep(K("c1")), KeyStep(StatusKey), KeyStep(ComponentStatusStarted)>>,
     <<KeyStep(<<"a", "]", "b">>)>>,
     <<KeyStep(<<"a", "]", "b">>), KeyStep(K("b")), IdxStep(1), KeyStep(K("c"))>>,
     <<KeyStep(<<"a", "]">>)>>,
     <<KeyStep(K("0")), KeyStep(K("b")), IdxStep(0)>>}

PathCalls ==
    [op : {"Set"}, i : {0}, key : PathKeys, lit : {Nested, Num(7)}]
    \cup [op : {"Set"}, i : {1}, key : {K("a")}, lit : {Nested}]
    \cup [op : {"SetPipelineData"}, i : {0}, t : {PipelineVariable}, lit : {Ada}]
    \cup {[op |-> "Get", i |-> i, path |-> Render(steps), steps |-> steps] :
             i \in BatchIdx, steps \in GetSteps}

NextPath == \E call \in PathCalls : Invoke(1, 1, call, FALSE)

SpecPath == Init /\ [][NextPath]_vars

(***************************************************************************)
(* One caller of the memoryStore and of the handles it returns.            *)
(***************************************************************************)
MaxStoreLog == 5

StoreOps == {"New", "Purge", "Write", "Load"}

\* every public read of handle w, batch index by batch index
ReadPaths ==
    {<<>>, K("k"), PipelineVariable, <<"variable", ".", "x">>,
     <<"c1", ".", "status", ".", "started">>, <<"c1", ".", "input", ".", "x">>}
Returned(h, out) == [res |-> out.res, val |-> Tree(h, out.val)]
PublicReads(h, w) ==
    [size |-> GetBatchSize(w),
     recipe |-> w.Recipe,
     get |-> [i \in 0..(Len(w.Data) - 1) |->
                [path \in ReadPaths |-> Returned(h, GetBody(h, w, i, path))]],
     pipeline |-> [i \in 0..(Len(w.Data) - 1) |->
                [t \in {PipelineVariable, PipelineSecret, PipelineOutput,
                        PipelineOutputTemplate} |->
                    Returned(h, GetPipelineDataBody(h, w, i, t))]],
     data |-> [i \in 0..(Len(w.Data) - 1) |->
                [c \in Comps |->
                    [t \in {ComponentDataInput, ComponentDataOutput,
                            ComponentDataElement, ComponentDataSetup} |->
                        Returned(h, GetComponentDataBody(h, w, i, c, t))]]],
     status |-> [i \in 0..(Len(w.Data) - 1) |->
                [c \in Comps |->
                    [t \in {ComponentStatusStarted, ComponentStatusSkipped,
                            ComponentStatusCompleted} |->
                        Returned(h, GetComponentStatusBody(h, w, i, c, t))]]]]

\* ms.workflows.Store(workflowID, handle)
StoreHandleIfAbsent(reg, workflowID, hd) ==
    IF reg[workflowID] = 0 THEN [reg EXCEPT ![workflowID] = hd] ELSE reg
StoreHandle(reg, workflowID, hd) == [reg EXCEPT ![workflowID] = hd]

StoreEntry(t, op, workflowID, res, hd) ==
    [t |-> t, call |-> [op |-> op, id |-> workflowID], res |-> res, ret |-> res, w |-> hd]

\* NewWorkflowMemory: the root maps, the handle, ms.workflows.Store
NewWorkflowMemory(t, workflowID, r, batchSize) ==
    /\ pc[t] = "idle"
    /\ Len(mlog) < MaxStoreLog
    /\ heap' = heap \o NewRootMaps(Len(heap), batchSize)
    /\ wfms' = Append(wfms, NewWfm(workflowID, r, Len(heap), batchSize))
    /\ mu' = Append(mu, 0)
    /\ registry' = StoreHandle(registry, workflowID, Len(wfms) + 1)
    /\ ret' = [ret EXCEPT ![t] = [op |-> "New", res |-> "ok", val |-> Nil,
                                  w |-> Len(wfms) + 1]]
    /\ mlog' = Append(mlog,
                  [StoreEntry(t, "New", workflowID, "ok", Len(wfms) + 1) EXCEPT
                      !.call = [op |-> "New", id |-> workflowID,
                                batchSize |-> batchSize]])
    /\ UNCHANGED <<redis, bus, pc, cur, ops>>

\* GetWorkflowMemory
GetWorkflowMemory(t, workflowID) ==
    /\ pc[t] = "idle"
    /\ ret' = [ret EXCEPT ![t] =
                  [op |-> "GetWorkflowMemory",
                   res |-> IF registry[workflowID] = 0 THEN "workflow memory not found"
                           ELSE "ok",
                   val |-> Nil, w |-> registry[workflowID], id |-> workflowID]]
    /\ UNCHANGED <<heap, wfms, mu, registry, redis, bus, pc, cur, mlog, ops>>

\* ms.workflows.Delete(workflowID)
DeleteAllHandles(reg, workflowID) == [id \in DOMAIN reg |-> 0]
DeleteHandle(reg, workflowID) == [reg EXCEPT ![workflowID] = 0]

\* PurgeWorkflowMemory: ms.workflows.Delete
PurgeWorkflowMemory(t, workflowID) ==
    /\ pc[t] = "idle"
    /\ Len(mlog) < MaxStoreLog
    /\ registry' = DeleteHandle(registry, workflowID)
    /\ ret' = [ret EXCEPT ![t] = [op |-> "Purge", res |-> "ok", val |-> Nil]]
    /\ mlog' = Append(mlog, StoreEntry(t, "Purge", workflowID, "ok", registry[workflowID]))
    /\ UNCHANGED <<heap, wfms, mu, redis, bus, pc, cur, ops>>

\* what WriteWorkflowMemoryToRedis returns for the handle found under the
\* id (0 for none) and a redisClient.Set that fails when setFails
WriteErrSwallowed(hd, setFails) ==
    IF hd = 0 THEN "workflow memory not found" ELSE "ok"
WriteErr(hd, setFails) ==
    IF hd = 0 THEN "workflow memory not found"
    ELSE IF setFails THEN "redis error"
    ELSE "ok"

\* WriteWorkflowMemoryToRedis with no other caller about: Load, Encode,
\* redisClient.Set (which fails when setFails)
WriteWorkflowMemoryToRedis(t, workflowID, setFails) ==
    /\ pc[t] = "idle"
    /\ Len(mlog) < MaxStoreLog
    /\ \E hd \in {registry[workflowID]} :
       \E res \in {WriteErr(hd, setFails)} :
          /\ setFails => hd # 0
          /\ redis' = IF res = "ok"
                      THEN RedisSet(redis, workflowID,
                                    GobWfm(wfms[hd].ID,
                                           [j \in 1..Len(wfms[hd].Data) |->
                                               GobValue(heap, wfms[hd].Data[j])],
                                           wfms[hd].Recipe),
                                    Hour)
                      ELSE redis
          /\ ret' = [ret EXCEPT ![t] = [op |-> "Write", res |-> res, val |-> Nil]]
          /\ mlog' = Append(mlog,
                        [StoreEntry(t, "Write", workflowID, res, hd) EXCEPT
                            !.call = [op |-> "Write", id |-> workflowID,
                                      fault |-> setFails,
                                      reads |-> IF hd = 0 THEN Nil
                                                ELSE PublicReads(heap, wfms[hd])]])
    /\ UNCHANGED <<heap, wfms, mu, registry, bus, pc, cur, ops>>

\* redisClient.Get(...).Err(): the client's error when the call fails, redis.Nil
\* when the key is not there (never written, or expired)
CmdErr(blob, getFails) ==
    IF getFails THEN "redis error"
    ELSE IF blob = NoBlob \/ Expired(blob) THEN "redis: nil"
    ELSE ""

\* dec.Decode(&wfm): the decoder's error on bytes that are not the gob of a
\* workflowMemory
DecodeErr(blob) == IF blob.k = "blob" THEN "" ELSE "decode error"

\* the error LoadWorkflowMemoryFromRedis returns, "" for nil
LoadErr(blob, getFails) ==
    IF CmdErr(blob, getFails) # "" THEN CmdErr(blob, getFails) ELSE DecodeErr(blob)

\* the registry after LoadWorkflowMemoryFromRedis: both error returns come
\* before ms.workflows.Store
LoadRegistryAlways(reg, workflowID, hd, err) == StoreHandle(reg, workflowID, hd)
LoadRegistry(reg, workflowID, hd, err) ==
    IF err # "" THEN reg ELSE StoreHandle(reg, workflowID, hd)

\* the workflowMemory{} Load decodes into and completes: ID, Data and Recipe
\* come from the blob, ID is then set to the lookup key, and streaming,
\* which the blob does not carry, is left false
LoadedWfmStreaming(workflowID, entry, data) ==
    [ID |-> workflowID, Data |-> data, Recipe |-> entry.Recipe, streaming |-> TRUE]
LoadedWfm(workflowID, entry, data) ==
    [ID |-> workflowID, Data |-> data, Recipe |-> entry.Recipe, streaming |-> FALSE]

\* LoadWorkflowMemoryFromRedis: redisClient.Get (which fails when getFails
\* or the key is not there), Decode into a new workflowMemory, the mutex,
\* client and ID set, ms.workflows.Store
LoadWorkflowMemoryFromRedis(t, workflowID, getFails) ==
    /\ pc[t] = "idle"
    /\ Len(mlog) < MaxStoreLog
    /\ \E err \in {LoadErr(redis[workflowID], getFails)} :
          /\ registry' = LoadRegistry(registry, workflowID, Len(wfms) + 1, err)
          /\ IF err # ""
             THEN /\ ret' = [ret EXCEPT ![t] = [op |-> "Load", res |-> err,
                                                val |-> Nil, w |-> 0]]
                  /\ mlog' = Append(mlog,
                                [StoreEntry(t, "Load", workflowID, err, 0) EXCEPT
                                    !.call = [op |-> "Load", id |-> workflowID,
                                              fault |-> getFails]])
                  /\ UNCHANGED <<heap, wfms, mu>>
             ELSE \E dec \in {GobDecodeValue(heap, Arr(redis[workflowID].Data))} :
                     /\ heap' = dec.h
                     /\ wfms' = Append(wfms, LoadedWfm(workflowID, redis[workflowID],
                                                       dec.v.vs))
                     /\ mu' = Append(mu, 0)
                     /\ ret' = [ret EXCEPT ![t] = [op |-> "Load", res |-> "ok",
                                                   val |-> Nil, w |-> Len(wfms) + 1]]
                     /\ mlog' = Append(mlog,
                                   [StoreEntry(t, "Load", workflowID, "ok", Len(wfms) + 1) EXCEPT
                                       !.call = [op |-> "Load", id |-> workflowID,
                                                 fault |-> getFails]])
    /\ UNCHANGED <<redis, bus, pc, cur, ops>>

\* the durable store drops the snapshot of workflowID: its hour has passed
ExpireSnapshot(workflowID) ==
    /\ redis[workflowID] # NoBlob
    /\ redis' = [redis EXCEPT ![workflowID] = NoBlob]
    /\ UNCHANGED <<heap, wfms, mu, registry, bus, pc, cur, ret, mlog, ops>>

\* the bytes under the key of workflowID are not a snapshot this build wrote
MalformedBlob == [k |-> "malformed"]
CorruptSnapshot(workflowID) ==
    /\ redis[workflowID] # MalformedBlob
    /\ redis' = [redis EXCEPT ![workflowID] = MalformedBlob]
    /\ UNCHANGED <<heap, wfms, mu, registry, bus, pc, cur, ret, mlog, ops>>

\* a write through handle hd
StoreInvoke(t, hd, call) ==
    /\ Len(mlog) < MaxStoreLog
    /\ Invoke(t, hd, call, FALSE)

\* EnableStreaming on a handle the store returned
StoreEnableStreaming(t, hd) ==
    /\ Len(mlog) < MaxStoreLog
    /\ SeqEnableStreaming(t, hd)

StoreIds == {"w1"}
StoreCalls ==
    [op : {"SetPipelineData"}, i : {0}, t : {PipelineVariable}, lit : {LitOf(2)}]
    \cup [op : {"SetComponentStatus"}, i : {1}, c : {K("c1")},
          t : {ComponentStatusStarted}, b : {TRUE}]

NextStore ==
    \/ NewWorkflowMemory(1, "w2", NoRecipe, BatchSize)
    \/ \E id \in WfIds : GetWorkflowMemory(1, id)
    \/ \E id \in StoreIds : PurgeWorkflowMemory(1, id)
    \/ \E id \in StoreIds, setFails \in BOOLEAN : WriteWorkflowMemoryToRedis(1, id, setFails)
    \/ \E id \in StoreIds, getFails \in BOOLEAN : LoadWorkflowMemoryFromRedis(1, id, getFails)
    \/ \E hd \in 1..Len(wfms), call \in StoreCalls : StoreInvoke(1, hd, call)

SpecStore == Init /\ [][NextStore]_vars

\* the caller who creates handles, turns streaming on and writes
NextStream ==
    \/ NewWorkflowMemory(1, "w2", NoRecipe, BatchSize)
    \/ \E id \in StoreIds : WriteWorkflowMemoryToRedis(1, id, FALSE)
    \/ \E id \in StoreIds : LoadWorkflowMemoryFromRedis(1, id, FALSE)
    \/ \E hd \in 1..Len(wfms), call \in StoreCalls : StoreInvoke(1, hd, call)
    \/ \E hd \in 1..Len(wfms) : StoreEnableStreaming(1, hd)

SpecStream == Init /\ [][NextStream]_vars

\* the caller who snapshots and restores one workflow, with a durable store
\* that may lose or garble what it holds
LoadCalls == [op : {"SetPipelineData"}, i : {0}, t : {PipelineVariable}, lit : {LitOf(2)}]

NextLoad ==
    \/ \E id \in StoreIds : GetWorkflowMemory(1, id)
    \/ \E id \in StoreIds : PurgeWorkflowMemory(1, id)
    \/ \E id \in StoreIds, setFails \in BOOLEAN : WriteWorkflowMemoryToRedis(1, id, setFails)
    \/ \E id \in StoreIds, getFails \in BOOLEAN : LoadWorkflowMemoryFromRedis(1, id, getFails)
    \/ \E hd \in 1..Len(wfms), call \in LoadCalls : StoreInvoke(1, hd, call)
    \/ \E id \in StoreIds : ExpireSnapshot(id)
    \/ \E id \in StoreIds : CorruptSnapshot(id)

SpecLoad == Init /\ [][NextLoad]_vars

\* the instants after a Set at which the durable store is looked at, and the
\* spans of seconds between them
Instants == {0, 1, 3599, 3600, 3601}
TickSeconds == {b - a : a \in Instants, b \in Instants} \cap (1..3601)

\* d seconds pass in the durable store
Tick(d) ==
    /\ \E id \in WfIds : redis[id] # NoBlob
    /\ \A id \in WfIds : redis[id] # NoBlob => redis[id].age + d \in Instants
    /\ redis' = [id \in WfIds |->
                    IF redis[id] = NoBlob THEN NoBlob
                    ELSE [redis[id] EXCEPT !.age = @ + d]]
    /\ UNCHANGED <<heap, wfms, mu, registry, bus, pc, cur, ret, mlog, ops>>

\* the caller who snapshots and restores one workflow while time passes
NextTtl ==
    \/ \E id \in StoreIds : WriteWorkflowMemoryToRedis(1, id, FALSE)
    \/ \E id \in StoreIds : LoadWorkflowMemoryFromRedis(1, id, FALSE)
    \/ \E hd \in 1..Len(wfms), call \in LoadCalls : StoreInvoke(1, hd, call)
    \/ \E d \in TickSeconds : Tick(d)

SpecTtl == Init /\ [][NextTtl]_vars

\* SendWorkflowStatusEvent: the event encoded, Publish on the channel
\* workflowID (which fails when pubFails); the registry is not consulted
SendWorkflowStatusEvent(t, workflowID, event, pubFails) ==
    /\ pc[t] = "idle"
    /\ Len(mlog) < MaxStoreLog
    /\ \E res \in {IF pubFails THEN "publish error" ELSE "ok"} :
          /\ bus' = IF pubFails THEN bus
                    ELSE Append(bus, [ch |-> workflowID, ev |-> event,
                                      m |-> Len(mlog) + 1])
          /\ ret' = [ret EXCEPT ![t] = [op |-> "Send", res |-> res, val |-> Nil]]
          /\ mlog' = Append(mlog,
                        [StoreEntry(t, "Send", workflowID, res, 0) EXCEPT
                            !.call = [op |-> "Send", id |-> workflowID,
                                      ev |-> event, fault |-> pubFails]])
    /\ UNCHANGED <<heap, wfms, mu, registry, redis, pc, cur, ops>>

\* an event callers send that no mutation produces
StatusEvents ==
    {[event |-> PipelineClosed, componentID |-> <<>>, batchIndex |-> 0, data |-> Nil]}

\* EnableStreaming on a handle that is not streaming yet
IndepEnableStreaming(t, hd) ==
    /\ pc[t] = "idle"
    /\ ~wfms[hd].streaming
    /\ wfms' = [wfms EXCEPT ![hd].streaming = TRUE]
    /\ ret' = [ret EXCEPT ![t] = [op |-> "EnableStreaming", res |-> "ok", val |-> Nil,
                                  w |-> hd]]
    /\ UNCHANGED <<heap, mu, registry, redis, bus, pc, cur, mlog, ops>>

IndepCalls == [op : {"SetPipelineData"}, i : {0}, t : {PipelineOutput}, lit : {LitOf(2)}]

\* the caller of two workflows, one of them restored from its snapshot
NextIndep ==
    \/ NewWorkflowMemory(1, "w2", NoRecipe, BatchSize)
    \/ \E id \in StoreIds : WriteWorkflowMemoryToRedis(1, id, FALSE)
    \/ \E id \in StoreIds : LoadWorkflowMemoryFromRedis(1, id, FALSE)
    \/ \E hd \in 1..Len(wfms), call \in IndepCalls : StoreInvoke(1, hd, call)
    \/ \E hd \in 1..Len(wfms) : IndepEnableStreaming(1, hd)
    \/ \E event \in StatusEvents, pubFails \in BOOLEAN :
          SendWorkflowStatusEvent(1, "w2", event, pubFails)

SpecIndep == Init /\ [][NextIndep]_vars

\* the caller who creates workflows of either size, writes to them,
\* snapshots and restores them
NextBatch ==
    \/ \E batchSize \in 1..BatchSize : NewWorkflowMemory(1, "w2", NoRecipe, batchSize)
    \/ \E id \in WfIds : WriteWorkflowMemoryToRedis(1, id, FALSE)
    \/ \E id \in WfIds : LoadWorkflowMemoryFromRedis(1, id, FALSE)
    \/ \E hd \in 1..Len(wfms), call \in LoadCalls : StoreInvoke(1, hd, call)

SpecBatch == Init /\ [][NextBatch]_vars

\* the values projected: maps over two keys whose values are absent, nil,
\* Null, scalars, arrays with a Null in them, or a map holding a Null
ProjLeaves ==
    {Nil, Null, Num(1), Str("s"), Arr(<<Null>>), Arr(<<Num(1), Null, Num(2)>>),
     MapV(K("a") :> Null)}
ProjInputs ==
    {MapV(f) : f \in UNION {[keys -> ProjLeaves] : keys \in SUBSET {K("a"), K("b")}}}

\* a caller holds a value to project
InitProj ==
    /\ heap = InitHeap
    /\ wfms = <<NewWfm("w1", "r1", 0, BatchSize)>>
    /\ mu = <<0>>
    /\ registry = [id \in WfIds |-> IF id = "w1" THEN 1 ELSE 0]
    /\ redis = [id \in WfIds |-> NoBlob]
    /\ bus = <<>>
    /\ pc = [t \in Threads |-> "idle"]
    /\ \E v \in ProjInputs : cur = [t \in Threads |-> [op |-> "project", v |-> v]]
    /\ ret = [t \in Threads |-> NoRet]
    /\ mlog = <<>>
    /\ ops = 0

\* Map.ToStructValue on the value held
Project(t) ==
    /\ ret' = [ret EXCEPT ![t] = [op |-> "Map.ToStructValue", res |-> "ok",
                                  val |-> ToStructValue(cur[t].v)]]
    /\ UNCHANGED <<heap, wfms, mu, registry, redis, bus, pc, cur, mlog, ops>>

\* (*Map).ToStructValue on the value held
ProjectPtr(t) ==
    /\ ret' = [ret EXCEPT ![t] = [op |-> "(*Map).ToStructValue", res |-> "ok",
                                  val |-> PtrToStructValue(cur[t].v)]]
    /\ UNCHANGED <<heap, wfms, mu, registry, redis, bus, pc, cur, mlog, ops>>

NextProj ==
    \/ Project(1)
    \/ ProjectPtr(1)

SpecProj == InitProj /\ [][NextProj]_vars

\* NewWorkflowMemory up to ms.workflows.Store: the root maps and the handle
\* made and stored under workflowID
NewStore(t, workflowID, r, batchSize) ==
    /\ pc[t] = "idle"
    /\ Len(mlog) < MaxStoreLog
    /\ heap' = heap \o NewRootMaps(Len(heap), batchSize)
    /\ wfms' = Append(wfms, NewWfm(workflowID, r, Len(heap), batchSize))
    /\ mu' = Append(mu, 0)
    /\ registry' = StoreHandle(registry, workflowID, Len(wfms) + 1)
    /\ pc' = [pc EXCEPT ![t] = "stored"]
    /\ cur' = [cur EXCEPT ![t] = [op |-> "NewWorkflowMemory", id |-> workflowID,
                                  w |-> Len(wfms) + 1]]
    /\ mlog' = Append(mlog,
                  [StoreEntry(t, "New", workflowID, "pending", Len(wfms) + 1) EXCEPT
                      !.call = [op |-> "New", id |-> workflowID,
                                batchSize |-> batchSize]])
    /\ UNCHANGED <<redis, bus, ret, ops>>

\* the rest of NewWorkflowMemory: ms.workflows.Load(workflowID) and the
\* return of what it found
NewLoad(t) ==
    /\ pc[t] = "stored"
    /\ ret' = [ret EXCEPT ![t] =
                  [op |-> "NewWorkflowMemory",
                   res |-> IF registry[cur[t].id] = 0 THEN "workflow memory not found"
                           ELSE "ok",
                   val |-> Nil, w |-> registry[cur[t].id], made |-> cur[t].w,
                   id |-> cur[t].id]]
    /\ pc' = [pc EXCEPT ![t] = "idle"]
    /\ cur' = [cur EXCEPT ![t] = Idle]
    /\ UNCHANGED <<heap, wfms, mu, registry, redis, bus, mlog, ops>>

\* callers who create and purge one workflow ID at the same time
NextNew ==
    \/ \E t \in Threads, id \in StoreIds : NewStore(t, id, NoRecipe, BatchSize)
    \/ \E t \in Threads : NewLoad(t)
    \/ \E t \in Threads, id \in StoreIds : PurgeWorkflowMemory(t, id)

SpecNew == Init /\ [][NextNew]_vars

\* the calls of a caller whose component IDs are the root map's own keys
\* as well as c1
ReservedIDs == {PipelineVariable, PipelineOutput, K("c1")}
ReservedCalls ==
    [op : {"InitComponent"}, i : {0}, c : ReservedIDs]
    \cup [op : {"SetComponentData"}, i : {0}, c : ReservedIDs,
          t : {ComponentDataInput}, lit : {LitOf(1)}]
    \cup [op : {"SetComponentStatus"}, i : {0}, c : ReservedIDs,
          t : {ComponentStatusStarted}, b : {TRUE}]
    \cup [op : {"SetPipelineData"}, i : {0}, t : {PipelineVariable}, lit : {LitOf(2)}]

NextReserved == \E call \in ReservedCalls : Invoke(1, 1, call, FALSE)

SpecReserved == Init /\ [][NextReserved]_vars

\* the calls of callers who may have to wait for each other: one that
\* publishes when streaming, one on a component that is not there, one whose
\* value does not project to an object
LiveCalls ==
    [op : {"SetComponentStatus"}, i : {0}, c : {K("c1")},
     t : {ComponentStatusStarted}, b : {TRUE}]
    \cup [op : {"SetComponentData"}, i : {0}, c : {K("c9")}, t : {ComponentDataInput},
          lit : {LitOf(1)}]
    \cup [op : {"SetPipelineData"}, i : {0}, t : {PipelineOutput}, lit : {StrLit}]

\* caller t calls a handler and reaches wfm.mu.Lock()
Call(t, call) ==
    /\ pc[t] = "idle"
    /\ ops < MaxOps
    /\ ops' = ops + 1
    /\ pc' = [pc EXCEPT ![t] = "waiting"]
    /\ cur' = [cur EXCEPT ![t] = [op |-> call.op, w |-> 1, call |-> call,
                                  behind |-> mu[1]]]
    /\ UNCHANGED <<heap, wfms, mu, registry, redis, bus, ret, mlog>>

\* wfm.mu.Lock() returns to caller t: the handler up to its call of Publish
\* or its return, and with the return the deferred Unlock
Acquire(t) ==
    /\ pc[t] = "waiting"
    /\ CanLock(mu[1])
    /\ \E out \in {Handler(heap, wfms[1], cur[t].call)} :
       \E entry \in {[t |-> t, call |-> cur[t].call, res |-> out.res, pub |-> out.pub,
                      ev |-> out.ev, streaming |-> wfms[1].streaming,
                      ret |-> IF out.pub THEN "pending" ELSE out.res,
                      w |-> 1, behind |-> cur[t].behind]} :
          /\ heap' = out.h
          /\ mlog' = Append(mlog, entry)
          /\ IF out.pub
             THEN /\ mu' = [mu EXCEPT ![1] = t]
                  /\ pc' = [pc EXCEPT ![t] = "publish"]
                  /\ cur' = [cur EXCEPT ![t] = [op |-> cur[t].op, w |-> 1,
                                                call |-> cur[t].call,
                                                ev |-> out.ev, m |-> Len(mlog) + 1]]
                  /\ ret' = ret
             ELSE /\ mu' = mu
                  /\ pc' = [pc EXCEPT ![t] = "idle"]
                  /\ cur' = [cur EXCEPT ![t] = Idle]
                  /\ ret' = [ret EXCEPT ![t] = [op |-> cur[t].op, res |-> out.res,
                                                val |-> out.val]]
    /\ UNCHANGED <<wfms, registry, redis, bus, ops>>

NextLive ==
    \E t \in Threads :
        \/ \E call \in LiveCalls : Call(t, call)
        \/ Acquire(t)
        \/ PublishOk(t)
        \/ PublishFail(t)

\* sync.Mutex hands the lock to a caller that keeps waiting for it, and
\* Publish returns
FairLive ==
    \A t \in Threads :
        /\ SF_vars(Acquire(t))
        /\ WF_vars(PublishOk(t) \/ PublishFail(t))

SpecLive == Init /\ [][NextLive]_vars /\ FairLive

(***************************************************************************)
(* Properties of the concurrent callers.                                   *)
(***************************************************************************)
\* the mlog entries of a given handler
IsCall(e, op) == e.call.op = op

\* the three flags of component c at index i in a DataTree
FlagsIn(dt, i, c) == dt[i + 1].f[c].f[StatusKey].f

\* C1: the events on the workflow's channel are in the order of the
\* mutations that produced them, each the event its mutation built
C1_EventsInMutationOrder ==
    \A j \in 1..Len(bus) :
        /\ bus[j].ch = "w1"
        /\ bus[j].ev = mlog[bus[j].m].ev
        /\ \A j2 \in (j + 1)..Len(bus) : bus[j].m < bus[j2].m

\* two callers have each published, a status event and an input event
C1_Witness ==
    /\ Len(bus) >= 2
    /\ mlog[bus[1].m].t # mlog[bus[2].m].t
    /\ {bus[1].ev.event, bus[2].ev.event} = {ComponentStatusUpdated, ComponentInputUpdated}

\* a is a returned SetComponentData whose slot no later call has written
StandingWrite(a) ==
    /\ IsCall(mlog[a], "SetComponentData")
    /\ mlog[a].ret # "pending"
    /\ \A b \in (a + 1)..Len(mlog) :
          ~(/\ IsCall(mlog[b], "SetComponentData")
            /\ mlog[b].call.i = mlog[a].call.i
            /\ mlog[b].call.c = mlog[a].call.c
            /\ mlog[b].call.t = mlog[a].call.t)

\* a and b are writes of two callers to distinct components of one index
ConcurrentPair(a, b) ==
    /\ StandingWrite(a) /\ StandingWrite(b)
    /\ mlog[a].t # mlog[b].t
    /\ mlog[a].call.i = mlog[b].call.i
    /\ mlog[a].call.c # mlog[b].call.c

\* the written value is what GetComponentData returns, and the write left
\* the flags of components c1 and c2 as they were
WriteStands(a, c1, c2) ==
    LET call == mlog[a].call
        got == GetComponentDataBody(heap, wfms[1], call.i, call.c, call.t)
    IN  /\ got.res = "ok"
        /\ Tree(heap, got.val) = call.lit
        /\ \A c \in {c1, c2} :
              FlagsIn(mlog[a].after, call.i, c) = FlagsIn(mlog[a].before, call.i, c)

\* C2: after two callers have written distinct components of one batch
\* index, both values are readable and neither write changed a status flag
C2_NoLostUpdate ==
    \A a, b \in 1..Len(mlog) :
        ConcurrentPair(a, b) =>
            /\ WriteStands(a, mlog[a].call.c, mlog[b].call.c)
            /\ WriteStands(b, mlog[a].call.c, mlog[b].call.c)

C2_Witness ==
    \E a, b \in 1..Len(mlog) :
        /\ ConcurrentPair(a, b)
        /\ mlog[a].call.lit # mlog[b].call.lit
        /\ \E c \in Comps : FlagsIn(DataTree(heap, wfms[1]), 0, c)[ComponentStatusStarted].b

\* C3: a snapshot written while mutations run equals the data as it was at
\* one instant between the start of the write and its end
C3_SnapshotIsOneInstant ==
    \A t \in Threads :
        (ret[t].op = "Write" /\ ret[t].res = "ok") => ret[t].blob.Data \in ret[t].seen

\* the triple the claim names: the flags before, with T set to b
ExpectedTriple(e) ==
    MapV([FlagsIn(e.before, e.call.i, e.call.c) EXCEPT ![e.call.t] = Bool(e.call.b)])

\* C4: with streaming on, a SetComponentStatus that returns nil has put
\* exactly one component_status_updated on the bus, carrying the flags as
\* they are right after its write
C4_StatusEventIsPostState ==
    \A a \in 1..Len(mlog) :
        (IsCall(mlog[a], "SetComponentStatus") /\ mlog[a].streaming /\ mlog[a].ret = "ok") =>
            /\ Cardinality({j \in 1..Len(bus) : bus[j].m = a}) = 1
            /\ \A j \in 1..Len(bus) :
                  bus[j].m = a =>
                      /\ bus[j].ev.event = ComponentStatusUpdated
                      /\ bus[j].ev.componentID = mlog[a].call.c
                      /\ bus[j].ev.data = ExpectedTriple(mlog[a])
                      /\ bus[j].ev.data.f = FlagsIn(mlog[a].after, mlog[a].call.i, mlog[a].call.c)

\* two callers have updated the flags of one component, the second seeing
\* the flag the first set
C4_Witness ==
    \E a, b \in 1..Len(mlog) :
        /\ a < b
        /\ IsCall(mlog[a], "SetComponentStatus") /\ IsCall(mlog[b], "SetComponentStatus")
        /\ mlog[a].t # mlog[b].t
        /\ mlog[a].ret = "ok" /\ mlog[b].ret = "ok"
        /\ mlog[a].streaming /\ mlog[b].streaming
        /\ mlog[a].call.t # mlog[b].call.t
        /\ mlog[a].call.b /\ mlog[b].call.b

(***************************************************************************)
(* Properties of the handlers, one caller at a time.                       *)
(***************************************************************************)
HandlerOps ==
    MutatingOps \cup {"Get", "GetComponentData", "GetComponentStatus", "GetPipelineData"}

\* the slot call wrote reads back as the value call wrote
ReadsBackWritten(h, w, call) ==
    CASE call.op = "SetComponentData" ->
            LET got == GetComponentDataBody(h, w, call.i, call.c, call.t)
            IN  got.res = "ok" /\ Tree(h, got.val) = call.lit
      [] call.op = "SetComponentStatus" ->
            LET got == GetComponentStatusBody(h, w, call.i, call.c, call.t)
            IN  got.res = "ok" /\ got.val = Bool(call.b)
      [] call.op = "SetPipelineData" ->
            LET got == GetPipelineDataBody(h, w, call.i, call.t)
            IN  got.res = "ok" /\ Tree(h, got.val) = call.lit
      [] OTHER -> FALSE

\* C5: a handler whose Publish failed has returned the error, has put
\* nothing on the bus, and the slot it wrote reads back as the new value
C5_PublishFailureKeepsWrite ==
    \A t \in Threads :
        ret[t].res = "publish error" =>
            /\ ret[t].op \in {"SetComponentData", "SetComponentStatus", "SetPipelineData"}
            /\ ret[t].streaming
            /\ ret[t].evs = <<>>
            /\ ReadsBackWritten(heap, wfms[ret[t].w], ret[t].call)

\* Publish has failed in a SetComponentData that replaced an earlier value
C5_Witness ==
    \E t \in Threads :
        /\ ret[t].res = "publish error"
        /\ ret[t].op = "SetComponentData"
        /\ ret[t].before # ret[t].after

\* C7: a handler given a batch index outside 0..batchSize-1 fails with
\* BatchOutOfRange, changes nothing and publishes nothing
C7_OutOfRangeIsAnError ==
    \A t \in Threads :
        (ret[t].op \in HandlerOps /\ ~InRange(wfms[ret[t].w], ret[t].call.i)) =>
            /\ ret[t].res = "BatchOutOfRange"
            /\ ret[t].before = ret[t].after
            /\ ret[t].evs = <<>>

\* C10: a mutation at batch index i leaves the root map of every other
\* index as it was
C10_BatchIsolation ==
    \A a \in 1..Len(mlog) :
        \A j \in 1..Len(mlog[a].before) :
            j # mlog[a].call.i + 1 => mlog[a].after[j] = mlog[a].before[j]

\* index 1 has been written after index 0, and index 0 still reads as written
C10_Witness ==
    \E a, b \in 1..Len(mlog) :
        /\ a < b
        /\ IsCall(mlog[a], "SetPipelineData") /\ mlog[a].call.i = 0
        /\ mlog[a].call.t = PipelineVariable
        /\ mlog[b].call.op \in {"SetPipelineData", "Set"} /\ mlog[b].call.i = 1
        /\ mlog[b].before # mlog[b].after
        /\ Tree(heap, GetPipelineDataBody(heap, wfms[1], 0, PipelineVariable).val)
              = mlog[a].call.lit
        /\ Tree(heap, GetPipelineDataBody(heap, wfms[1], 1, PipelineVariable).val)
              = MapV(EmptyFields)

(***************************************************************************)
(* Properties of Set and Get.                                              *)
(***************************************************************************)
\* what a path resolver owes the caller for steps on the value tree v: the
\* sub-value, NotFound for a missing key or an index out of range,
\* InvalidPath for a step on a value of the wrong variant
RECURSIVE Resolve(_, _)
Resolve(v, steps) ==
    IF steps = <<>> THEN [res |-> "ok", val |-> v]
    ELSE LET st == Head(steps)
         IN  IF st.s = "key"
             THEN IF v.k # "map" THEN [res |-> "InvalidPath", val |-> Nil]
                  ELSE IF st.key \notin DOMAIN v.f THEN [res |-> "NotFound", val |-> Nil]
                  ELSE Resolve(v.f[st.key], Tail(steps))
             ELSE IF v.k # "arr" THEN [res |-> "InvalidPath", val |-> Nil]
                  ELSE IF st.n < 0 \/ st.n >= Len(v.vs) THEN [res |-> "NotFound", val |-> Nil]
                  ELSE Resolve(v.vs[st.n + 1], Tail(steps))

\* a key that is an identifier of the path language
Identifier(key) == key # <<>> /\ \A j \in 1..Len(key) : key[j] \notin {".", "[", "]"}

WellFormed(steps) ==
    \A j \in 1..Len(steps) :
        IF steps[j].s = "key" THEN Identifier(steps[j].key) ELSE steps[j].n >= 0

\* C8: Get on a well-formed path never panics: it returns the addressed
\* sub-value, NotFound for a missing key or an index out of range, and
\* InvalidPath for a step on a value of the wrong variant
C8_GetIsTotal ==
    \A t \in Threads :
        (/\ ret[t].op = "Get"
         /\ InRange(wfms[ret[t].w], ret[t].call.i)
         /\ WellFormed(ret[t].call.steps)) =>
            LET owed == Resolve(ret[t].before[ret[t].call.i + 1], ret[t].call.steps)
            IN  /\ ret[t].res = owed.res
                /\ owed.res = "ok" => Tree(heap, ret[t].val) = owed.val

\* the key a write names
KeyOf(call) == IF call.op = "Set" THEN call.key ELSE call.t

\* caller t has just read with Get the batch index that the latest
\* mutation, a Set or SetPipelineData that returned nil, wrote
GetAfterSet(t) ==
    /\ ret[t].op = "Get"
    /\ mlog # <<>>
    /\ mlog[Len(mlog)].call.op \in {"Set", "SetPipelineData"}
    /\ mlog[Len(mlog)].ret = "ok"
    /\ mlog[Len(mlog)].call.i = ret[t].call.i

\* the sub-paths p read below a key
SubPaths ==
    {<<KeyStep(K("b"))>>,
     <<KeyStep(K("b")), IdxStep(0)>>,
     <<KeyStep(K("b")), IdxStep(1)>>,
     <<KeyStep(K("b")), IdxStep(0), KeyStep(K("c"))>>,
     <<KeyStep(K("b")), IdxStep(1), KeyStep(K("c"))>>,
     <<KeyStep(K("name"))>>}

\* the Get of caller t has returned what the Set before it stored: all of
\* it for the key as path, the sub-value for the key followed by a sub-path
ReadsBackSet(t) ==
    LET e == mlog[Len(mlog)]
        key == KeyOf(e.call)
    IN  /\ ret[t].call.path = key =>
              ret[t].res = "ok" /\ Tree(heap, ret[t].val) = e.call.lit
        /\ \A p \in SubPaths :
              (/\ ret[t].call.path = key \o <<".">> \o Render(p)
               /\ Resolve(e.call.lit, p).res = "ok") =>
                  /\ ret[t].res = "ok"
                  /\ Tree(heap, ret[t].val) = Resolve(e.call.lit, p).val

\* a key that the path code reads as one key step: not empty, no "." and
\* no "[" in it, and no "]" at its end
PlainKey(key) ==
    /\ key # <<>>
    /\ \A j \in 1..Len(key) : key[j] \notin {".", "["}
    /\ key[Len(key)] # "]"

\* C9: for every key k, Set(i, k, v) followed by Get(i, k) returns v, and
\* Get(i, k.p) returns the sub-value of v at p
C9_SetGetRoundTrip ==
    \A t \in Threads : GetAfterSet(t) => ReadsBackSet(t)

\* C9, for the keys the path language can name: when k is not empty, holds
\* no "." and no "[" and does not end in "]", Set(i, k, v) followed by
\* Get(i, k) returns v, and Get(i, k.p) returns the sub-value of v at p
C9_SetGetRoundTripPlainKeys ==
    \A t \in Threads :
        (GetAfterSet(t) /\ PlainKey(KeyOf(mlog[Len(mlog)].call))) => ReadsBackSet(t)

\* Get(0, "a.b[1].c") has returned 20 right after Set(0, "a", v)
C9_Witness ==
    \E t \in Threads :
        /\ GetAfterSet(t)
        /\ mlog[Len(mlog)].call.op = "Set"
        /\ mlog[Len(mlog)].call.key = K("a")
        /\ mlog[Len(mlog)].call.lit = Nested
        /\ ret[t].call.path = <<"a", ".", "b", "[", "1", "]", ".", "c">>
        /\ ret[t].res = "ok"
        /\ ret[t].val = Num(20)

(***************************************************************************)
(* Properties of the memoryStore.                                          *)
(***************************************************************************)
\* the last three operations were Write(id) returning nil, Purge(id), and
\* a Load(id) whose redisClient.Get did not fail
WritePurgeLoad(id) ==
    /\ Len(mlog) >= 3
    /\ mlog[Len(mlog) - 2].call.op = "Write"
    /\ mlog[Len(mlog) - 2].call.id = id
    /\ mlog[Len(mlog) - 2].res = "ok"
    /\ mlog[Len(mlog) - 1].call.op = "Purge"
    /\ mlog[Len(mlog) - 1].call.id = id
    /\ mlog[Len(mlog)].call.op = "Load"
    /\ mlog[Len(mlog)].call.id = id
    /\ ~mlog[Len(mlog)].call.fault

\* C6: Write(id), Purge(id), Load(id) yields a new handle, registered under
\* id, whose every public read returns what the original handle returned
\* just before the write
C6_SnapshotRestoreRoundTrip ==
    \A id \in WfIds :
        WritePurgeLoad(id) =>
            /\ mlog[Len(mlog)].res = "ok"
            /\ mlog[Len(mlog)].w # mlog[Len(mlog) - 2].w
            /\ registry[id] = mlog[Len(mlog)].w
            /\ wfms[mlog[Len(mlog)].w].ID = id
            /\ PublicReads(heap, wfms[mlog[Len(mlog)].w]) = mlog[Len(mlog) - 2].call.reads

\* a workflow written to after construction has gone through Write, Purge
\* and Load, and the new handle reads the written value
C6_Witness ==
    /\ WritePurgeLoad("w1")
    /\ mlog[Len(mlog)].res = "ok"
    /\ mlog[1].call.op = "SetPipelineData"
    /\ mlog[2].call.op = "SetComponentStatus"
    /\ mlog[Len(mlog) - 2].call.reads.recipe = "r1"
    /\ Tree(heap, GetPipelineDataBody(heap, wfms[mlog[Len(mlog)].w], 0, PipelineVariable).val)
          = LitOf(2)
    /\ GetComponentStatusBody(heap, wfms[mlog[Len(mlog)].w], 1, K("c1"),
                              ComponentStatusStarted).val = Bool(TRUE)

(***************************************************************************)
(* Properties of the events.                                               *)
(***************************************************************************)
\* the event name a data write owes the bus, "" when it owes none
OwedEvent(call) ==
    CASE call.op = "SetComponentData" /\ call.t = ComponentDataInput -> ComponentInputUpdated
      [] call.op = "SetComponentData" /\ call.t = ComponentDataOutput -> ComponentOutputUpdated
      [] call.op = "SetPipelineData" /\ call.t = PipelineOutput -> PipelineOutputUpdated
      [] OTHER -> ""

\* C11: with streaming on, a data write that returned nil has published
\* the event of its tag when the tag is an emitting one, and nothing when it
\* is not; Set and InitComponent have published nothing
C11_EventsOnlyForEmittingTags ==
    \A t \in Threads :
        (/\ ret[t].op \in {"SetComponentData", "SetPipelineData", "Set", "InitComponent"}
         /\ ret[t].streaming
         /\ ret[t].res = "ok") =>
            IF OwedEvent(ret[t].call) = ""
            THEN ret[t].evs = <<>>
            ELSE /\ Len(ret[t].evs) = 1
                 /\ ret[t].evs[1].event = OwedEvent(ret[t].call)

EventNames ==
    {ComponentStatusUpdated, ComponentInputUpdated, ComponentOutputUpdated,
     PipelineOutputUpdated}

\* C12: every named event on the bus carries the batch index of the
\* mutation that published it, and a component event the component
C12_EventCarriesBatchIndex ==
    \A b \in 1..Len(bus) :
        bus[b].ev.event \in EventNames =>
            /\ bus[b].ev.batchIndex = mlog[bus[b].m].call.i
            /\ bus[b].ev.event # PipelineOutputUpdated =>
                  bus[b].ev.componentID = mlog[bus[b].m].call.c

(***************************************************************************)
(* Properties of the components.                                           *)
(***************************************************************************)
ComponentOps ==
    {"SetComponentData", "GetComponentData", "SetComponentStatus", "GetComponentStatus"}

\* caller t has just called a component operation for a component that
\* batch index i, in range, did not hold
OnMissingComponent(t) ==
    /\ ret[t].op \in ComponentOps
    /\ InRange(wfms[ret[t].w], ret[t].call.i)
    /\ ret[t].call.c \notin DOMAIN ret[t].before[ret[t].call.i + 1].f

FreshComponent ==
    MapV((ComponentDataInput :> MapV(EmptyFields))
         @@ (ComponentDataOutput :> MapV(EmptyFields))
         @@ (ComponentDataSetup :> MapV(EmptyFields))
         @@ (StatusKey :> MapV((ComponentStatusStarted :> Bool(FALSE))
                               @@ (ComponentStatusSkipped :> Bool(FALSE))
                               @@ (ComponentStatusCompleted :> Bool(FALSE)))))

\* C14: after InitComponent(i, C) the component reads as the skeleton:
\* three flags false, input, output and setup empty maps, whatever it held
\* before, so that a second InitComponent changes nothing
C14_InitComponentResets ==
    \A t \in Threads :
        (ret[t].op = "InitComponent" /\ InRange(wfms[ret[t].w], ret[t].call.i)) =>
            LET w == wfms[ret[t].w]
                i == ret[t].call.i
                c == ret[t].call.c
            IN  /\ ret[t].res = "ok"
                /\ ret[t].after[i + 1].f[c] = FreshComponent
                /\ \A f \in {ComponentStatusStarted, ComponentStatusSkipped,
                             ComponentStatusCompleted} :
                      GetComponentStatusBody(heap, w, i, c, f).val = Bool(FALSE)
                /\ \A d \in {ComponentDataInput, ComponentDataOutput, ComponentDataSetup} :
                      Tree(heap, GetComponentDataBody(heap, w, i, c, d).val)
                          = MapV(EmptyFields)
                /\ InitComponentBody(heap, w, i, c).res = "ok"
                /\ DataTree(InitComponentBody(heap, w, i, c).h, w) = ret[t].after

\* InitComponent has reset a component that held data or a set flag
C14_Witness ==
    \E t \in Threads :
        /\ ret[t].op = "InitComponent"
        /\ InRange(wfms[ret[t].w], ret[t].call.i)
        /\ ret[t].call.c \in DOMAIN ret[t].before[ret[t].call.i + 1].f
        /\ ret[t].before[ret[t].call.i + 1].f[ret[t].call.c] # FreshComponent
        /\ ret[t].before[ret[t].call.i + 1].f[ret[t].call.c].k = "map"

(***************************************************************************)
(* Properties of construction and of the registry.                         *)
(***************************************************************************)
PipelineTags == {PipelineVariable, PipelineSecret, PipelineOutput}

\* C15: right after NewWorkflowMemory, GetPipelineData returns an empty
\* map for variable, secret and output at every batch index, and no two of
\* these maps are the same object
C15_NewWorkflowIsEmpty ==
    \A t \in Threads :
        ret[t].op = "New" =>
            LET w == wfms[ret[t].w]
                got(i, tag) == GetPipelineDataBody(heap, w, i, tag)
                slots == (0..(GetBatchSize(w) - 1)) \X PipelineTags
            IN  /\ \A sl \in slots :
                      /\ got(sl[1], sl[2]).res = "ok"
                      /\ got(sl[1], sl[2]).val.k = "ref"
                      /\ heap[got(sl[1], sl[2]).val.a] = EmptyFields
                /\ \A s1, s2 \in slots :
                      s1 # s2 => got(s1[1], s1[2]).val.a # got(s2[1], s2[2]).val.a

\* a workflow of two batch indices has just been created
C15_Witness ==
    \E t \in Threads :
        /\ ret[t].op = "New"
        /\ GetBatchSize(wfms[ret[t].w]) >= 2
        /\ registry["w2"] = ret[t].w

(***************************************************************************)
(* Properties of the streaming flag.                                       *)
(***************************************************************************)
\* one step keeps to the life of the flag: a handle is created with
\* streaming off, only EnableStreaming on it turns it on, nothing turns it
\* off, and an event is published only through a handle whose flag is on
StreamingStep ==
    /\ \A hd \in DOMAIN wfms' :
          IF hd \in DOMAIN wfms
          THEN /\ wfms[hd].streaming => wfms'[hd].streaming
               /\ (~wfms[hd].streaming /\ wfms'[hd].streaming) =>
                     /\ ops' = ops + 1
                     /\ \E t \in Threads :
                           ret'[t].op = "EnableStreaming" /\ ret'[t].w = hd
          ELSE ~wfms'[hd].streaming
    /\ Len(bus') > Len(bus) => wfms[mlog'[bus'[Len(bus')].m].w].streaming

\* C16: streaming is off on a new handle, only EnableStreaming turns it on,
\* no mutation publishes before that, and nothing turns it off again
C16_StreamingIsOneWay == [][StreamingStep]_vars

\* a handle made by the store wrote without publishing, had EnableStreaming
\* called on it, and then wrote and published
C16_Witness ==
    \E a, b \in 1..Len(mlog) :
        /\ a < b
        /\ mlog[a].w = mlog[b].w
        /\ mlog[a].w > 1
        /\ mlog[a].call.op \in MutatingOps /\ mlog[b].call.op \in MutatingOps
        /\ ~mlog[a].streaming /\ ~mlog[a].pub
        /\ mlog[b].streaming /\ mlog[b].pub
        /\ \E e \in 1..Len(bus) : bus[e].m = b
        /\ wfms[mlog[a].w].streaming

\* the handle the operations so far have left registered under id, 0 for
\* none: that of the latest NewWorkflowMemory or successful Load when no
\* Purge came after it
Registered(id) ==
    LET regs == {a \in 1..Len(mlog) :
                    /\ mlog[a].call.op \in {"New", "Purge", "Load"}
                    /\ mlog[a].call.id = id
                    /\ mlog[a].res = "ok"}
    IN  IF regs = {} THEN (IF id = "w1" THEN 1 ELSE 0)
        ELSE LET last == CHOOSE a \in regs : \A b \in regs : b <= a
             IN  IF mlog[last].call.op = "Purge" THEN 0 ELSE mlog[last].w

\* C17: GetWorkflowMemory(id) succeeds exactly when a NewWorkflowMemory or
\* a successful Load of id has happened since the last Purge of id, and
\* returns the handle of the latest of them; otherwise it fails with the
\* not-found error
C17_GetReturnsLatestRegistration ==
    \A t \in Threads :
        ret[t].op = "GetWorkflowMemory" =>
            IF Registered(ret[t].id) = 0
            THEN ret[t].res = "workflow memory not found"
            ELSE ret[t].res = "ok" /\ ret[t].w = Registered(ret[t].id)

\* NewWorkflowMemory("w2") was called twice and GetWorkflowMemory("w2") has
\* returned the second handle
C17_Witness ==
    \E t \in Threads :
        /\ ret[t].op = "GetWorkflowMemory"
        /\ ret[t].id = "w2"
        /\ ret[t].res = "ok"
        /\ \E a, b \in 1..Len(mlog) :
              /\ a < b
              /\ mlog[a].call.op = "New" /\ mlog[b].call.op = "New"
              /\ mlog[a].w # mlog[b].w
              /\ ret[t].w = mlog[b].w

\* the step is a call of the store operation op
StoreStep(op) ==
    /\ Len(mlog') = Len(mlog) + 1
    /\ mlog'[Len(mlog')].call.op = op

\* a PurgeWorkflowMemory step: it returns success, the id is unregistered
\* after it, every other id keeps its entry, the workflows and the durable
\* store are untouched, and on an id that is not registered it changes
\* nothing
PurgeStep ==
    StoreStep("Purge") =>
        LET e == mlog'[Len(mlog')]
        IN  /\ ret'[e.t].op = "Purge" /\ ret'[e.t].res = "ok"
            /\ registry'[e.call.id] = 0
            /\ \A id \in DOMAIN registry \ {e.call.id} : registry'[id] = registry[id]
            /\ registry[e.call.id] = 0 => registry' = registry
            /\ UNCHANGED <<heap, wfms, mu, redis, bus>>

\* C18: PurgeWorkflowMemory(id) returns success whether or not id is
\* registered, a second call leaves the store as the first left it, and no
\* entry other than id is removed
C18_PurgeIsIdempotent == [][PurgeStep]_vars

\* PurgeWorkflowMemory("w1") was called twice in a row, first on the
\* registered id and then on the id it had removed, while "w2" is registered
C18_Witness ==
    /\ registry["w2"] # 0
    /\ registry["w1"] = 0
    /\ \E a \in 1..(Len(mlog) - 1) :
          /\ mlog[a].call.op = "Purge" /\ mlog[a].w # 0 /\ mlog[a].res = "ok"
          /\ mlog[a + 1].call.op = "Purge" /\ mlog[a + 1].w = 0
          /\ mlog[a + 1].res = "ok"
          /\ a + 1 = Len(mlog)

\* a LoadWorkflowMemoryFromRedis step: with no snapshot under the key it
\* fails with the missing-key error, with bytes that are no snapshot it
\* fails with the decoder's error, and the registry is as before; otherwise
\* it returns a new handle whose ID is the id, registered under the id in
\* place of whatever was there
LoadStep ==
    StoreStep("Load") =>
        LET e == mlog'[Len(mlog')]
            id == e.call.id
        IN  /\ ret'[e.t].op = "Load" /\ ret'[e.t].res = e.res /\ ret'[e.t].w = e.w
            /\ IF redis[id] = NoBlob
               THEN e.res # "ok" /\ (~e.call.fault => e.res = "redis: nil")
               ELSE IF e.call.fault THEN e.res = "redis error"
               ELSE IF redis[id] = MalformedBlob THEN e.res = "decode error"
               ELSE e.res = "ok"
            /\ e.res # "ok" => registry' = registry /\ wfms' = wfms
            /\ e.res = "ok" =>
                  /\ e.w \in DOMAIN wfms' \ DOMAIN wfms
                  /\ wfms'[e.w].ID = id
                  /\ registry'[id] = e.w
                  /\ \A id2 \in DOMAIN registry \ {id} : registry'[id2] = registry[id2]

\* a GetWorkflowMemory(id) step that comes after a successful Load(id)
\* returns the handle Load returned
GetAfterLoadStep ==
    \A t \in Threads :
        (/\ ret'[t].op = "GetWorkflowMemory"
         /\ mlog' = mlog /\ Len(mlog) > 0
         /\ mlog[Len(mlog)].call.op = "Load"
         /\ mlog[Len(mlog)].res = "ok"
         /\ mlog[Len(mlog)].call.id = ret'[t].id)
        => ret'[t].res = "ok" /\ ret'[t].w = mlog[Len(mlog)].w

\* C19: LoadWorkflowMemoryFromRedis(id) fails with the missing-key error
\* when no snapshot is under the key and with the decoder's error when the
\* blob is malformed, both leaving the registry unchanged; on success the
\* handle has ID = id, replaces any entry under id, and is what a following
\* GetWorkflowMemory(id) returns
C19_LoadRegistersOnlyOnSuccess == [][LoadStep /\ GetAfterLoadStep]_vars

\* Load has failed on an absent key and on a malformed blob, then succeeded
\* while an earlier handle was still registered, and GetWorkflowMemory has
\* returned the loaded handle
C19_Witness ==
    /\ \E a \in 1..Len(mlog) : mlog[a].call.op = "Load" /\ mlog[a].res = "redis: nil"
    /\ \E a \in 1..Len(mlog) : mlog[a].call.op = "Load" /\ mlog[a].res = "decode error"
    /\ \A a \in 1..Len(mlog) : mlog[a].call.op # "Purge"
    /\ mlog[Len(mlog)].call.op = "Load" /\ mlog[Len(mlog)].res = "ok"
    /\ \E t \in Threads :
          /\ ret[t].op = "GetWorkflowMemory"
          /\ ret[t].w = mlog[Len(mlog)].w
          /\ ret[t].w # 1

\* a WriteWorkflowMemoryToRedis step: on an id that is not registered it
\* fails with the not-found error and the durable store is as before; when
\* redisClient.Set fails it returns that error; otherwise it succeeds; and
\* the registry, the handles and the maps behind them are as before
WriteStep ==
    StoreStep("Write") =>
        LET e == mlog'[Len(mlog')]
            id == e.call.id
        IN  /\ ret'[e.t].op = "Write" /\ ret'[e.t].res = e.res
            /\ IF registry[id] = 0
               THEN e.res = "workflow memory not found" /\ redis' = redis
               ELSE IF e.call.fault THEN e.res # "ok"
               ELSE e.res = "ok" /\ redis'[id] # NoBlob
            /\ UNCHANGED <<registry, heap, wfms, mu>>
            /\ \A hd \in DOMAIN wfms :
                  PublicReads(heap', wfms'[hd]) = PublicReads(heap, wfms[hd])

\* C20: WriteWorkflowMemoryToRedis(id) fails with the not-found error when
\* id is not registered and then writes nothing to the durable store, it
\* returns an error when the store refuses the write, and it never changes
\* the workflow in memory or the registry
C20_WriteLeavesMemoryAlone == [][WriteStep]_vars

\* Write has failed on a purged id with a snapshot from an earlier, good
\* Write still in the durable store, and a Write was refused by the store
C20_Witness ==
    /\ Len(mlog) >= 1
    /\ mlog[Len(mlog)].call.op = "Write"
    /\ mlog[Len(mlog)].res = "workflow memory not found"
    /\ redis["w1"] # NoBlob /\ redis["w1"] # MalformedBlob
    /\ \E a \in 1..Len(mlog) :
          /\ mlog[a].call.op = "Write"
          /\ mlog[a].call.fault
          /\ mlog[a].res = "redis error"

(***************************************************************************)
(* The snapshot's time to live.                                            *)
(***************************************************************************)
\* a step of SpecTtl seen from the durable store: a Load whose Get does not
\* fail succeeds when fewer than 3600 seconds have passed since the last
\* Set of the key and fails with the missing-key error from then on; a
\* successful Write leaves the workflow's present data under the key with
\* no time passed; the passing of time changes no stored blob
TtlStep ==
    /\ (StoreStep("Load") /\ ~mlog'[Len(mlog')].call.fault) =>
          LET e == mlog'[Len(mlog')]
              entry == redis[e.call.id]
          IN  IF entry # NoBlob /\ entry.k = "blob" /\ entry.age < 3600
              THEN e.res = "ok"
              ELSE entry # MalformedBlob => e.res = "redis: nil"
    /\ (StoreStep("Write") /\ mlog'[Len(mlog')].res = "ok") =>
          LET e == mlog'[Len(mlog')]
              entry == redis'[e.call.id]
          IN  /\ entry.age = 0
              /\ entry.ID = e.call.id
              /\ entry.Data = [j \in 1..Len(wfms[e.w].Data) |->
                                  Tree(heap, wfms[e.w].Data[j])]
    /\ mlog' = mlog =>
          \A id \in WfIds :
              /\ (redis[id] = NoBlob) = (redis'[id] = NoBlob)
              /\ redis[id] # NoBlob =>
                    /\ redis'[id].Data = redis[id].Data
                    /\ redis'[id].age >= redis[id].age

\* C21: a snapshot is readable for 3600 seconds from its write and not
\* afterwards: Load before that succeeds, Load from then on fails with the
\* missing-key error, and a later Write of the id replaces the blob and
\* starts the hour again
C21_SnapshotLivesOneHour == [][TtlStep]_vars

\* a snapshot was written and loaded within its hour, the hour ran out and
\* Load failed, and after a second Write Load succeeded again with part of
\* the new hour gone
C21_Witness ==
    /\ Len(mlog) = 5
    /\ [a \in 1..5 |-> mlog[a].call.op] = <<"Write", "Load", "Load", "Write", "Load">>
    /\ [a \in 1..5 |-> mlog[a].res] = <<"ok", "ok", "redis: nil", "ok", "ok">>
    /\ redis["w1"].age = 3599

(***************************************************************************)
(* Workflows side by side.                                                 *)
(***************************************************************************)
\* the id handle hd was created under: that of the NewWorkflowMemory or the
\* Load that returned it, "w1" for the handle there from the start
CreatedAs(hd) ==
    IF \E a \in 1..Len(mlog) : mlog[a].call.op \in {"New", "Load"} /\ mlog[a].w = hd
    THEN mlog[CHOOSE a \in 1..Len(mlog) :
                 mlog[a].call.op \in {"New", "Load"} /\ mlog[a].w = hd].call.id
    ELSE "w1"

\* a step of a mutation through one handle leaves the data behind every
\* other handle as it was and publishes at most one event, on the channel
\* of the id the handle was created under; a SendWorkflowStatusEvent step
\* changes no data and, when Publish succeeds, puts exactly its event on
\* the channel of its id
IndepStep ==
    /\ (Len(mlog') = Len(mlog) + 1 /\ mlog'[Len(mlog')].call.op \in MutatingOps) =>
          LET e == mlog'[Len(mlog')]
          IN  /\ \A hd2 \in DOMAIN wfms \ {e.w} :
                    DataTree(heap', wfms'[hd2]) = DataTree(heap, wfms[hd2])
              /\ \/ bus' = bus
                 \/ /\ Len(bus') = Len(bus) + 1
                    /\ SubSeq(bus', 1, Len(bus)) = bus
                    /\ bus'[Len(bus')].ch = CreatedAs(e.w)
    /\ StoreStep("Send") =>
          LET e == mlog'[Len(mlog')]
          IN  /\ heap' = heap /\ wfms' = wfms /\ registry' = registry
              /\ IF e.res = "ok"
                 THEN /\ Len(bus') = Len(bus) + 1
                      /\ SubSeq(bus', 1, Len(bus)) = bus
                      /\ bus'[Len(bus')].ch = e.call.id
                      /\ bus'[Len(bus')].ev = e.call.ev
                 ELSE bus' = bus

\* C22: a mutation on one workflow changes no data of another and its event
\* goes to the channel of its own workflow ID only, also through a handle
\* that Load returned; SendWorkflowStatusEvent(id, event) publishes exactly
\* one message on channel id and changes no workflow data
C22_WorkflowsAreIndependent == [][IndepStep]_vars

\* events are on the channels of both workflows: one from a mutation of
\* "w2" and one from a mutation through a restored handle of "w1"
C22_Witness ==
    /\ \E b \in 1..Len(bus) :
          /\ bus[b].ch = "w2"
          /\ mlog[bus[b].m].call.op = "SetPipelineData"
    /\ \E b \in 1..Len(bus) :
          /\ bus[b].ch = "w1"
          /\ mlog[bus[b].m].call.op = "SetPipelineData"
          /\ \E a \in 1..Len(mlog) :
                mlog[a].call.op = "Load" /\ mlog[a].w = mlog[bus[b].m].w

(***************************************************************************)
(* The number of root maps.                                                *)
(***************************************************************************)
\* every index of the workflow holds a pointer to a map on the heap
HoldsRootMaps(h, w) ==
    \A j \in 1..Len(w.Data) : w.Data[j].k = "ref" /\ w.Data[j].a \in 1..Len(h)

\* the handle the snapshot under id was written from
WrittenFrom(id) ==
    LET ws == {a \in 1..Len(mlog) :
                  mlog[a].call.op = "Write" /\ mlog[a].call.id = id /\ mlog[a].res = "ok"}
    IN  mlog[CHOOSE a \in ws : \A b \in ws : b <= a].w

\* a step leaves every handle with the number of root maps it had; the
\* handle NewWorkflowMemory returns has batchSize of them, the handle Load
\* returns as many as the handle the snapshot was written from
BatchStep ==
    /\ \A hd \in DOMAIN wfms :
          /\ GetBatchSize(wfms'[hd]) = GetBatchSize(wfms[hd])
          /\ HoldsRootMaps(heap', wfms'[hd])
    /\ StoreStep("New") =>
          /\ GetBatchSize(wfms'[mlog'[Len(mlog')].w]) = mlog'[Len(mlog')].call.batchSize
          /\ HoldsRootMaps(heap', wfms'[mlog'[Len(mlog')].w])
    /\ (StoreStep("Load") /\ mlog'[Len(mlog')].res = "ok") =>
          /\ GetBatchSize(wfms'[mlog'[Len(mlog')].w])
                = GetBatchSize(wfms[WrittenFrom(mlog'[Len(mlog')].call.id)])
          /\ HoldsRootMaps(heap', wfms'[mlog'[Len(mlog')].w])

\* C23: GetBatchSize() of a workflow is the batchSize passed to
\* NewWorkflowMemory after any sequence of operations, snapshot and restore
\* included, and every index below it holds a root map
C23_BatchSizeIsFixed == [][BatchStep]_vars

\* a workflow made with batchSize 1 beside one of batchSize 2 was written
\* to, snapshot and restored, and the restored handle has one root map
C23_Witness ==
    /\ Len(mlog) >= 4
    /\ mlog[Len(mlog)].call.op = "Load"
    /\ mlog[Len(mlog)].res = "ok"
    /\ GetBatchSize(wfms[mlog[Len(mlog)].w]) = 1
    /\ GetBatchSize(wfms[1]) = 2
    /\ \E a \in 1..Len(mlog) :
          /\ mlog[a].call.op = "New" /\ mlog[a].call.batchSize = 1
          /\ \E b \in (a + 1)..Len(mlog) :
                mlog[b].call.op = "SetPipelineData" /\ mlog[b].w = mlog[a].w

(***************************************************************************)
(* Structural projection.                                                  *)
(***************************************************************************)
\* out is the projection the value model asks for of a value v without nil
\* in it: a map loses its Null-valued keys and keeps the others, an array
\* keeps its length and a Null element as the null at its index
RECURSIVE ProjectsTo(_, _)
ProjectsTo(v, out) ==
    CASE v.k = "map" ->
            /\ out.k = "map"
            /\ DOMAIN out.f = {key \in DOMAIN v.f : v.f[key].k # "null"}
            /\ \A key \in DOMAIN out.f : ProjectsTo(v.f[key], out.f[key])
      [] v.k = "arr" ->
            /\ out.k = "arr"
            /\ Len(out.vs) = Len(v.vs)
            /\ \A j \in 1..Len(v.vs) :
                  IF v.vs[j].k = "null" THEN out.vs[j] = Null
                  ELSE ProjectsTo(v.vs[j], out.vs[j])
      [] OTHER -> out = v

\* v has no nil interface in it
RECURSIVE NoNil(_)
NoNil(v) ==
    CASE v.k = "map" -> \A key \in DOMAIN v.f : NoNil(v.f[key])
      [] v.k = "arr" -> \A j \in 1..Len(v.vs) : NoNil(v.vs[j])
      [] OTHER -> v.k # "nil"

\* C24: the structural projection of a map has exactly the keys with
\* non-Null values, each mapped to the projection of its value, and that of
\* an array keeps a Null element as a null at its index
C24_ProjectionOmitsNullKeys ==
    \A t \in Threads :
        (ret[t].op \in {"Map.ToStructValue", "(*Map).ToStructValue"} /\ NoNil(cur[t].v))
            => ProjectsTo(cur[t].v, ret[t].val)

(***************************************************************************)
(* NewWorkflowMemory among other callers.                                  *)
(***************************************************************************)
\* C25: NewWorkflowMemory returns, without error, the handle that the call
\* itself made, whatever other calls for the same id come between its store
\* into the registry and its read back
C25_NewReturnsItsOwnHandle ==
    \A t \in Threads :
        ret[t].op = "NewWorkflowMemory" =>
            ret[t].res = "ok" /\ ret[t].w = ret[t].made

(***************************************************************************)
(* Component IDs and the pipeline's own keys.                              *)
(***************************************************************************)
\* what GetPipelineData(i, t) returns on the data dt
PipelineRead(dt, i, t) ==
    IF t \in DOMAIN dt[i + 1].f THEN dt[i + 1].f[t] ELSE [k |-> "not exist"]

\* C26: InitComponent, SetComponentData and SetComponentStatus, for any
\* component ID, leave what GetPipelineData returns for variable, secret,
\* output and _output at every batch index as it was
C26_ComponentOpsKeepPipelineData ==
    \A a \in 1..Len(mlog) :
        mlog[a].call.op \in {"InitComponent", "SetComponentData", "SetComponentStatus"} =>
            \A i \in 0..(Len(mlog[a].before) - 1) :
            \A t \in PipelineTags \cup {PipelineOutputTemplate} :
                PipelineRead(mlog[a].after, i, t) = PipelineRead(mlog[a].before, i, t)

(***************************************************************************)
(* A component's status map.                                               *)
(***************************************************************************)
\* the component c of index i is a map whose status entry is a map holding
\* the three flags as booleans
HasStatusFlags(dt, i, c) ==
    /\ c \in DOMAIN dt[i + 1].f
    /\ dt[i + 1].f[c].k = "map"
    /\ StatusKey \in DOMAIN dt[i + 1].f[c].f
    /\ dt[i + 1].f[c].f[StatusKey].k = "map"
    /\ \A t \in {ComponentStatusStarted, ComponentStatusSkipped, ComponentStatusCompleted} :
          /\ t \in DOMAIN dt[i + 1].f[c].f[StatusKey].f
          /\ dt[i + 1].f[c].f[StatusKey].f[t].k = "bool"

\* C27: the component c1, initialised at every batch index from the start,
\* stays a map with the three boolean status flags whatever is called, so
\* no GetComponentStatus or SetComponentStatus on it fails or panics
C27_ComponentKeepsItsStatus ==
    /\ \A i \in BatchIdx : HasStatusFlags(DataTree(heap, wfms[1]), i, K("c1"))
    /\ \A t \in Threads :
          (/\ ret[t].op \in {"GetComponentStatus", "SetComponentStatus"}
           /\ ret[t].call.c = K("c1")
           /\ ret[t].call.i \in BatchIdx)
          => ret[t].res \in {"ok", "publish error"}

(***************************************************************************)
(* Streaming after a restore.                                              *)
(***************************************************************************)
\* hd is a handle that LoadWorkflowMemoryFromRedis returned
Restored(log, hd) ==
    \E a \in 1..Len(log) : log[a].call.op = "Load" /\ log[a].res = "ok" /\ log[a].w = hd

\* a step seen from the restored handles: the handle Load returns is not
\* streaming, whatever the handle the snapshot was written from is; a
\* restored handle starts streaming only by EnableStreaming on itself; and
\* while it is not streaming no event of a mutation through it is on the bus
RestoredStep ==
    /\ (StoreStep("Load") /\ mlog'[Len(mlog')].res = "ok") =>
          ~wfms'[mlog'[Len(mlog')].w].streaming
    /\ \A hd \in DOMAIN wfms :
          (Restored(mlog, hd) /\ ~wfms[hd].streaming /\ wfms'[hd].streaming) =>
             \E t \in Threads : ret'[t].op = "EnableStreaming" /\ ret'[t].w = hd
    /\ \A hd \in DOMAIN wfms' :
          (Restored(mlog', hd) /\ ~wfms'[hd].streaming) =>
             \A b \in 1..Len(bus') : mlog'[bus'[b].m].w # hd

\* C28: a handle returned by LoadWorkflowMemoryFromRedis is not streaming,
\* whatever the streaming flag was when the snapshot was written, and
\* mutations through it publish nothing until EnableStreaming is called on it
C28_RestoredHandleIsSilent == [][RestoredStep]_vars

\* a snapshot written from a streaming workflow was restored, a write
\* through the restored handle published nothing, and after EnableStreaming
\* on the restored handle the next write published
C28_Witness ==
    \E a \in 1..Len(mlog) :
        /\ mlog[a].call.op = "Load" /\ mlog[a].res = "ok"
        /\ wfms[WrittenFrom(mlog[a].call.id)].streaming
        /\ \E b, c \in (a + 1)..Len(mlog) :
              /\ b < c
              /\ mlog[b].w = mlog[a].w /\ mlog[b].call.op = "SetPipelineData"
              /\ ~mlog[b].streaming /\ ~mlog[b].pub
              /\ mlog[c].w = mlog[a].w /\ mlog[c].call.op = "SetPipelineData"
              /\ mlog[c].pub
              /\ \E m \in 1..Len(bus) : bus[m].m = c

(***************************************************************************)
(* Callers waiting for the workflow's mutex.                               *)
(***************************************************************************)
\* C29: every handler releases the mutex on every way out (success,
\* component not found, projection error, publish error), so with a mutex
\* that serves its waiters and a Publish that returns, every caller that
\* has called a handler eventually returns from it
C29_EveryCallerCompletes ==
    \A t \in Threads : (pc[t] # "idle") ~> (pc[t] = "idle")

\* a caller that found the mutex held by another when it called has
\* returned, after a call that ended in a publish error and a call that
\* ended in an error of the handler, and nobody holds the mutex
C29_Witness ==
    /\ \A t \in Threads : pc[t] = "idle"
    /\ mu[1] = 0
    /\ \E a \in 1..Len(mlog) :
          "behind" \in DOMAIN mlog[a] /\ mlog[a].behind \notin {0, mlog[a].t}
    /\ \E a \in 1..Len(mlog) : mlog[a].ret = "publish error"
    /\ \E a \in 1..Len(mlog) : mlog[a].ret \notin {"ok", "publish error", "pending"}

(***************************************************************************)
(* The image component's crop (component/operator/image crop.go).          *)
(***************************************************************************)
\* Go's int, narrowed to IntBits bits; arithmetic wraps around
IntBits == 5
MinInt == -(2 ^ (IntBits - 1))
MaxInt == 2 ^ (IntBits - 1) - 1
WrapInt(n) == ((n - MinInt) % (2 ^ IntBits)) + MinInt

\* the smaller of the cropped image's width and height
MinDim(width, height) == IF height < width THEN height ELSE width

\* the circle branch: radius limited to maxRadius / 2
CircleRadiusUnclamped(radius, width, height) == radius
CircleRadiusApplied(radius, width, height) ==
    IF radius > MinDim(width, height) \div 2
    THEN MinDim(width, height) \div 2
    ELSE radius

\* the corner branch: int(math.Min(float64(CornerRadius), min(w, h) / 2)),
\* the division being one of float64 and the conversion truncating
CornerRadiusApplied(radius, width, height) ==
    IF 2 * radius <= MinDim(width, height)
    THEN radius
    ELSE MinDim(width, height) \div 2

\* crop on a decoded image of the given width and height
crop(in) ==
    LET x1 == in.left
        y1 == in.top
        x2 == WrapInt(in.width - in.right)
        y2 == WrapInt(in.height - in.bottom)
        w == WrapInt(x2 - x1)
        h == WrapInt(y2 - y1)
    IN  IF x1 < 0 \/ y1 < 0 \/ x2 > in.width \/ y2 > in.height \/ x1 >= x2 \/ y1 >= y2
        THEN [res |-> "invalid crop dimensions", img |-> Nil]
        ELSE [res |-> "ok",
              img |-> IF in.circle > 0
                      THEN [width |-> w, height |-> h, shape |-> "circle",
                            radius |-> CircleRadiusApplied(in.circle, w, h)]
                      ELSE IF in.corner > 0
                      THEN [width |-> w, height |-> h, shape |-> "corner",
                            radius |-> CornerRadiusApplied(in.corner, w, h)]
                      ELSE [width |-> w, height |-> h, shape |-> "rect", radius |-> 0]]

\* image sizes and offsets and radii given to crop, with the ends of int
CropInputs ==
    [width : 1..3, height : 1..3,
     left : {-1, 0, 1, 2}, top : {-1, 0, 1, 2},
     right : {MinInt, -1, 0, 1, 2, MaxInt}, bottom : {MinInt + 1, -1, 0, 1},
     circle : {0, 1, 2}, corner : {0, 1, MaxInt}]

InitCrop ==
    /\ heap = InitHeap
    /\ wfms = <<NewWfm("w1", "r1", 0, BatchSize)>>
    /\ mu = <<0>>
    /\ registry = [id \in WfIds |-> IF id = "w1" THEN 1 ELSE 0]
    /\ redis = [id \in WfIds |-> NoBlob]
    /\ bus = <<>>
    /\ pc = [t \in Threads |-> "idle"]
    /\ \E in \in CropInputs : cur = [t \in Threads |-> [op |-> "crop", in |-> in]]
    /\ ret = [t \in Threads |-> NoRet]
    /\ mlog = <<>>
    /\ ops = 0

\* crop on the input held
Crop(t) ==
    /\ \E out \in {crop(cur[t].in)} :
          ret' = [ret EXCEPT ![t] = [op |-> "crop", res |-> out.res, val |-> out.img,
                                     in |-> cur[t].in]]
    /\ UNCHANGED <<heap, wfms, mu, registry, redis, bus, pc, cur, mlog, ops>>

NextCrop == \E t \in Threads : Crop(t)

SpecCrop == InitCrop /\ [][NextCrop]_vars

\* the claimed condition of success, over the integers
CropValid(in) ==
    /\ in.left >= 0 /\ in.top >= 0 /\ in.right >= 0 /\ in.bottom >= 0
    /\ in.left < in.width - in.right
    /\ in.top < in.height - in.bottom

\* C30: crop succeeds exactly when the four offsets are not negative and
\* left < width - right and top < height - bottom; the image it makes is
\* width - left - right wide and height - top - bottom high and the radius
\* of its circle or corners is at most half of its smaller side; otherwise
\* it returns "invalid crop dimensions" and no image
C30_CropDimensions ==
    \A t \in Threads :
        ret[t].op = "crop" =>
            IF CropValid(ret[t].in)
            THEN /\ ret[t].res = "ok"
                 /\ ret[t].val.width = ret[t].in.width - ret[t].in.left - ret[t].in.right
                 /\ ret[t].val.height = ret[t].in.height - ret[t].in.top - ret[t].in.bottom
                 /\ 2 * ret[t].val.radius <= MinDim(ret[t].val.width, ret[t].val.height)
                 /\ ret[t].val.radius >= 0
            ELSE /\ ret[t].res = "invalid crop dimensions"
                 /\ ret[t].val = Nil

\* a crop with offsets on both sides has made an image whose circle was
\* asked larger than the image allows
C30_Witness ==
    \E t \in Threads :
        /\ ret[t].op = "crop"
        /\ ret[t].res = "ok"
        /\ ret[t].in.left > 0 /\ ret[t].in.right > 0
        /\ ret[t].val.shape = "circle"
        /\ ret[t].val.radius < ret[t].in.circle

====
